---- MODULE Spec2Model ----
(***************************************************************************)
(* doptions: a command-line argument parser.                               *)
(*                                                                         *)
(* A std::string is a sequence of one-character strings, so that trimming, *)
(* prefixing, name validation and numeric conversion are computed on the   *)
(* characters, as the code does.  Indices are 0-based as in the code; a    *)
(* std::vector v is a sequence read with At(v, i).                         *)
(***************************************************************************)
EXTENDS Integers, Sequences, FiniteSets, TLC

(* ------------------------------ bounds --------------------------------- *)
\* longest argument list handed to parse / parseCommand
MaxArgs == 3
\* number of parse / parseCommand calls made on one Application
MaxCalls == 2

(* --------------------------- std:: helpers ----------------------------- *)
At(v, i) == v[i + 1]

\* std::string_view::substr(pos, n) / substr(pos)
substr(s, pos, n) == SubSeq(s, pos + 1, pos + n)
substrFrom(s, pos) == SubSeq(s, pos + 1, Len(s))

\* std::string_view::starts_with
starts_with(s, p) == Len(s) >= Len(p) /\ SubSeq(s, 1, Len(p)) = p

LowerCase == {"a", "b", "c", "d", "e", "f", "g", "h", "i", "j", "k", "l", "m",
              "n", "o", "p", "q", "r", "s", "t", "u", "v", "w", "x", "y", "z"}
UpperCase == {"A", "B", "C", "D", "E", "F", "G", "H", "I", "J", "K", "L", "M",
              "N", "O", "P", "Q", "R", "S", "T", "U", "V", "W", "X", "Y", "Z"}
DigitChars == {"0", "1", "2", "3", "4", "5", "6", "7", "8", "9"}

\* <cctype> in the "C" locale
isspace(ch) == ch \in {" ", "\t", "\n", "\r", "\f"}
isalpha(ch) == ch \in LowerCase \cup UpperCase
isdigit(ch) == ch \in DigitChars
isalnum(ch) == isalpha(ch) \/ isdigit(ch)

(* --------------------------- StringUtils ------------------------------- *)
RECURSIVE trimStart(_, _)
\* first while loop of trim: the index of the first non-space character
trimStart(str, sIndex) ==
  IF sIndex < Len(str) /\ isspace(At(str, sIndex))
  THEN trimStart(str, sIndex + 1)
  ELSE sIndex

RECURSIVE trimEnd(_, _, _)
\* second while loop of trim: the index of the last non-space character
trimEnd(str, sIndex, eIndex) ==
  IF eIndex > sIndex /\ isspace(At(str, eIndex))
  THEN trimEnd(str, sIndex, eIndex - 1)
  ELSE eIndex

trim(str) ==
  IF str = <<>> THEN str
  ELSE LET sIndex == trimStart(str, 0)
       IN IF sIndex = Len(str) THEN <<>>
          ELSE LET eIndex == trimEnd(str, sIndex, Len(str) - 1)
               IN substr(str, sIndex, eIndex - sIndex + 1)

(* -------------------------- NameValidations ---------------------------- *)
defaultShortLimit == 3
defaultLongLimit == 100

\* NameValidationConfig{}: the default member initialisers
NameValidationConfig ==
  [shortNameLimit |-> defaultShortLimit,
   longNameLimit |-> defaultLongLimit,
   nameContainsDots |-> FALSE,
   nameContainsDashes |-> TRUE,
   nameContainsUnderscores |-> TRUE,
   reserverNames |-> <<>>]

\* mutant: the first character is checked like every other character
validCharFirstUnchecked(cfg, ch, first) ==
  \/ isalnum(ch)
  \/ (cfg.nameContainsDashes /\ ch = "-")
  \/ (cfg.nameContainsDots /\ ch = ".")
  \/ (cfg.nameContainsUnderscores /\ ch = "_")

\* NameValidations::validChar(ch, first)
validChar(cfg, ch, first) ==
  IF first THEN isalpha(ch)
  ELSE \/ isalnum(ch)
       \/ (cfg.nameContainsDashes /\ ch = "-")
       \/ (cfg.nameContainsDots /\ ch = ".")
       \/ (cfg.nameContainsUnderscores /\ ch = "_")

\* NameValidations::validateName: "ok" or the BuildException it throws
NVvalidateName(cfg, name) ==
  IF name = <<>> THEN "emptyName"
  ELSE IF ~validChar(cfg, At(name, 0), TRUE) THEN "invalidName"
  ELSE IF \E i \in 0..(Len(name) - 1) : ~validChar(cfg, At(name, i), FALSE)
       THEN "invalidName"
  ELSE "ok"

\* mutant: a long name may be as short as the short limit
validateSizeLongFromLimit(cfg, name, isShort) ==
  LET size == Len(name)
  IN IF isShort /\ (size > cfg.shortNameLimit \/ size = 0) THEN "invalidSize"
     ELSE IF ~isShort /\ (size < cfg.shortNameLimit \/ size = 0
                          \/ size > cfg.longNameLimit) THEN "invalidSize"
     ELSE "ok"

\* NameValidations::validateSize: "ok" or the BuildException it throws
validateSize(cfg, name, isShort) ==
  LET size == Len(name)
  IN IF isShort /\ (size > cfg.shortNameLimit \/ size = 0) THEN "invalidSize"
     ELSE IF ~isShort /\ (size <= cfg.shortNameLimit \/ size = 0
                          \/ size > cfg.longNameLimit) THEN "invalidSize"
     ELSE "ok"

(* ------------------------------- Option -------------------------------- *)
\* the position of the first ',' in data, or -1 (std::string::npos)
find(data, ch) ==
  IF \E i \in 0..(Len(data) - 1) : At(data, i) = ch
  THEN CHOOSE i \in 0..(Len(data) - 1) :
         /\ At(data, i) = ch
         /\ \A j \in 0..(i - 1) : At(data, j) # ch
  ELSE -1

BuildOk(sName, lName) == [err |-> "ok", shortName |-> sName, longName |-> lName]
BuildErr(kind) == [err |-> kind, shortName |-> <<>>, longName |-> <<>>]

\* the first failing check of a list of checks, in the order the code runs them
FirstErr(checks) ==
  IF \E i \in 1..Len(checks) : checks[i] # "ok"
  THEN checks[CHOOSE i \in 1..Len(checks) :
                /\ checks[i] # "ok"
                /\ \A j \in 1..(i - 1) : checks[j] = "ok"]
  ELSE "ok"

\* Option::validateName, the branch of a spec with a ','
validateCombined(cfg, data, separator) ==
  LET shortT == trim(substr(data, 0, separator))
      longT == trim(substrFrom(data, separator + 1))
  IN IF shortT = <<>> THEN BuildErr("emptyName")
     ELSE IF longT = <<>> THEN BuildErr("emptyName")
     ELSE LET shortName == IF At(shortT, 0) = "-" THEN substrFrom(shortT, 1)
                           ELSE shortT
              longName == IF starts_with(longT, <<"-", "-">>)
                          THEN substrFrom(longT, 2) ELSE longT
              e == FirstErr(<<NVvalidateName(cfg, shortName),
                              NVvalidateName(cfg, longName),
                              validateSize(cfg, shortName, TRUE),
                              validateSize(cfg, longName, FALSE)>>)
          IN IF e = "ok" THEN BuildOk(shortName, longName) ELSE BuildErr(e)

\* mutant: the dashes are stripped whatever is left after them
validateSingleAnyLength(cfg, data0) ==
  LET isLongForm == starts_with(data0, <<"-", "-">>)
      isShortForm == ~isLongForm /\ At(data0, 0) = "-"
      stripped == IF isLongForm THEN substrFrom(data0, 2)
                  ELSE IF isShortForm THEN substrFrom(data0, 1)
                  ELSE data0
      isShort == IF isLongForm THEN FALSE
                 ELSE IF isShortForm THEN TRUE
                 ELSE Len(data0) <= 3
      data == trim(stripped)
      e == FirstErr(<<validateSize(cfg, data, isShort),
                      NVvalidateName(cfg, data)>>)
  IN IF e # "ok" THEN BuildErr(e)
     ELSE IF isShort THEN BuildOk(data, <<>>)
     ELSE BuildOk(<<>>, data)

\* Option::validateName, the branch of a single name
validateSingle(cfg, data0) ==
  LET isLongForm == starts_with(data0, <<"-", "-">>) /\ Len(data0) >= 3
      isShortForm == ~isLongForm /\ At(data0, 0) = "-" /\ Len(data0) >= 2
      stripped == IF isLongForm THEN substrFrom(data0, 2)
                  ELSE IF isShortForm THEN substrFrom(data0, 1)
                  ELSE data0
      isShort == IF isLongForm THEN FALSE
                 ELSE IF isShortForm THEN TRUE
                 ELSE Len(data0) <= 3
      data == trim(stripped)
      e == FirstErr(<<validateSize(cfg, data, isShort),
                      NVvalidateName(cfg, data)>>)
  IN IF e # "ok" THEN BuildErr(e)
     ELSE IF isShort THEN BuildOk(data, <<>>)
     ELSE BuildOk(<<>>, data)

\* Option::validateName(name): the pair (shortName, longName) or the error
validateName(cfg, name) ==
  IF name = <<>> THEN BuildErr("emptyName")
  ELSE LET data == trim(name)
       IN IF data = <<>> THEN BuildErr("emptyName")
          ELSE LET separator == find(data, ",")
               IN IF separator # -1
                  THEN validateCombined(cfg, data, separator)
                  ELSE validateSingle(cfg, data)

\* mutant: the names are stored as validateName returned them
newOptionBare(r, V, var) ==
  [err |-> r.err,
   shortName_ |-> r.shortName,
   longName_ |-> r.longName,
   needsValue_ |-> (V # "bool"),
   type |-> V,
   value_ |-> var]

\* createOption after validateName: the new Option from the pair r, with the
\* dashes put back in front of the names
newOption(r, V, var) ==
  [err |-> r.err,
   shortName_ |-> IF r.shortName # <<>> THEN <<"-">> \o r.shortName ELSE <<>>,
   longName_ |-> IF r.longName # <<>> THEN <<"-", "-">> \o r.longName
                 ELSE <<>>,
   needsValue_ |-> (V # "bool"),
   type |-> V,
   value_ |-> var]

\* Option<V>::createOption(name, var); V is the name of the value type
createOption(cfg, name, V, var) == newOption(validateName(cfg, name), V, var)

\* mutants: needsValue_ never cleared for bool / cleared for every type
needsValueAlways(opt) == TRUE
needsValueNever(opt) == FALSE

shortName(opt) == opt.shortName_
longName(opt) == opt.longName_
needsValue(opt) == opt.needsValue_

(* ------------------------------- fromStr ------------------------------- *)
DigitVal(ch) == CHOOSE d \in 0..9 : At(<<"0", "1", "2", "3", "4", "5", "6", "7",
                                        "8", "9">>, d) = ch

RECURSIVE skipSpace(_, _)
\* strtoll / strtoull discard leading white space
skipSpace(str, i) ==
  IF i < Len(str) /\ isspace(At(str, i)) THEN skipSpace(str, i + 1) ELSE i

RECURSIVE digitsEnd(_, _)
\* the index after the longest run of decimal digits starting at i
digitsEnd(str, i) ==
  IF i < Len(str) /\ isdigit(At(str, i)) THEN digitsEnd(str, i + 1) ELSE i

\* A 64-bit value (long long, unsigned long long) is held as its sign and the
\* decimal digits of its magnitude, most significant first and without leading
\* zero (no digit for zero): TLC's own integers have 32 bits only.
Wide(neg, mag) == [neg |-> neg /\ mag # <<>>, mag |-> mag]

RECURSIVE stripZeros(_)
stripZeros(d) == IF d # <<>> /\ d[1] = 0 THEN stripZeros(Tail(d)) ELSE d

\* the magnitude written by the characters of s
Digits(s) == stripZeros([k \in 1..Len(s) |-> DigitVal(s[k])])

RECURSIVE lexLess(_, _)
lexLess(a, b) ==
  a # <<>> /\ (a[1] < b[1] \/ (a[1] = b[1] /\ lexLess(Tail(a), Tail(b))))
\* a < b on magnitudes
MagLess(a, b) == Len(a) < Len(b) \/ (Len(a) = Len(b) /\ lexLess(a, b))
\* x < y on 64-bit values
Less(x, y) ==
  IF x.neg /\ ~y.neg THEN TRUE
  ELSE IF ~x.neg /\ y.neg THEN FALSE
  ELSE IF x.neg THEN MagLess(y.mag, x.mag)
  ELSE MagLess(x.mag, y.mag)

padTo(b, n) == [k \in 1..n |-> IF k <= n - Len(b) THEN 0 ELSE b[k - (n - Len(b))]]
RECURSIVE subDigits(_, _, _, _, _)
subDigits(a, b, i, borrow, acc) ==
  IF i = 0 THEN acc
  ELSE subDigits(a, b, i - 1,
                 IF a[i] - b[i] - borrow < 0 THEN 1 ELSE 0,
                 <<(a[i] - b[i] - borrow + 10) % 10>> \o acc)
\* a - b on magnitudes, for a >= b
MagSub(a, b) == stripZeros(subDigits(a, padTo(b, Len(a)), Len(a), 0, <<>>))

\* LLONG_MAX, -LLONG_MIN = 2^63, ULLONG_MAX and 2^64
LLONG_MAX == Digits(<<"9", "2", "2", "3", "3", "7", "2", "0", "3", "6", "8", "5", "4", "7", "7", "5", "8", "0", "7">>)
TwoTo63 == Digits(<<"9", "2", "2", "3", "3", "7", "2", "0", "3", "6", "8", "5", "4", "7", "7", "5", "8", "0", "8">>)
ULLONG_MAX == Digits(<<"1", "8", "4", "4", "6", "7", "4", "4", "0", "7", "3", "7", "0", "9", "5", "5", "1", "6", "1", "5">>)
TwoTo64 == Digits(<<"1", "8", "4", "4", "6", "7", "4", "4", "0", "7", "3", "7", "0", "9", "5", "5", "1", "6", "1", "6">>)

\* the conversion of a long long to uint64_t (modulo 2^64)
toUint64(v) == IF v.neg THEN Wide(FALSE, MagSub(TwoTo64, v.mag)) ELSE v

RECURSIVE magToInt(_, _, _)
magToInt(d, acc, sgn) ==
  IF d = <<>> THEN acc ELSE magToInt(Tail(d), acc * 10 + sgn * d[1], sgn)
\* a 64-bit value within the range of int32_t as an integer
ToInt(v) == magToInt(v.mag, 0, IF v.neg THEN -1 ELSE 1)

\* std::to_string of an integer
toString(v) ==
  IF v.mag = <<>> THEN <<"0">>
  ELSE (IF v.neg THEN <<"-">> ELSE <<>>) \o
       [k \in 1..Len(v.mag) |-> At(<<"0", "1", "2", "3", "4", "5", "6", "7",
                                     "8", "9">>, v.mag[k])]

\* mutant: the conversion fails unless the digits reach the end of str
scanDigitsWhole(str, neg, d0, d1) ==
  IF d1 = d0 \/ d1 # Len(str)
  THEN [err |-> "invalid_argument", neg |-> FALSE, mag |-> <<>>]
  ELSE [err |-> "ok", neg |-> neg, mag |-> Digits(SubSeq(str, d0 + 1, d1))]

\* strtoll / strtoull, base 10: the subject sequence of str is white space, an
\* optional sign, then the longest run of digits; what follows the digits is
\* ignored; without a digit there is no conversion.
scanDigits(str, neg, d0, d1) ==
  IF d1 = d0 THEN [err |-> "invalid_argument", neg |-> FALSE, mag |-> <<>>]
  ELSE [err |-> "ok", neg |-> neg, mag |-> Digits(SubSeq(str, d0 + 1, d1))]
scanSign(str, s0) ==
  IF s0 < Len(str) /\ At(str, s0) \in {"-", "+"}
  THEN scanDigits(str, At(str, s0) = "-", s0 + 1, digitsEnd(str, s0 + 1))
  ELSE scanDigits(str, FALSE, s0, digitsEnd(str, s0))
scanInteger(str) == scanSign(str, skipSpace(str, 0))

\* the result of strtoll on the scanned number p, as std::stoll reports it
stollOf(p) ==
  IF p.err # "ok" THEN [err |-> p.err, val |-> Wide(FALSE, <<>>)]
  ELSE IF MagLess(IF p.neg THEN TwoTo63 ELSE LLONG_MAX, p.mag)
       THEN [err |-> "out_of_range", val |-> Wide(FALSE, <<>>)]
  ELSE [err |-> "ok", val |-> Wide(p.neg, p.mag)]
\* std::stoll(str): the long long, std::invalid_argument without a digit,
\* std::out_of_range outside [-2^63, 2^63 - 1]
stoll(str) == stollOf(scanInteger(str))

\* the result of strtoull on the scanned number p: a magnitude above
\* ULLONG_MAX is a range error, and a minus sign negates the converted value
\* in the unsigned type (modulo 2^64)
stoullOf(p) ==
  IF p.err # "ok" THEN [err |-> p.err, val |-> Wide(FALSE, <<>>)]
  ELSE IF MagLess(ULLONG_MAX, p.mag)
       THEN [err |-> "out_of_range", val |-> Wide(FALSE, <<>>)]
  ELSE [err |-> "ok", val |-> toUint64(Wide(p.neg, p.mag))]
\* std::stoull(str)
stoull(str) == stoullOf(scanInteger(str))

SignedTypes == {"int8", "int16", "int32", "int64"}
UnsignedTypes == {"uint8", "uint16", "uint32", "uint64"}
\* the integer types whose values fit TLC's integers
NarrowTypes == {"int8", "int16", "int32", "uint8", "uint16"}

\* NumberUtils::getLimits<T>()
getLimits(T) ==
  CASE T = "int8" -> [min |-> Wide(TRUE, Digits(<<"1", "2", "8">>)),
                      max |-> Wide(FALSE, Digits(<<"1", "2", "7">>))]
    [] T = "int16" -> [min |-> Wide(TRUE, Digits(<<"3", "2", "7", "6", "8">>)),
                       max |-> Wide(FALSE, Digits(<<"3", "2", "7", "6", "7">>))]
    [] T = "int32" -> [min |-> Wide(TRUE, Digits(<<"2", "1", "4", "7", "4", "8", "3", "6", "4", "8">>)),
                       max |-> Wide(FALSE, Digits(<<"2", "1", "4", "7", "4", "8", "3", "6", "4", "7">>))]
    [] T = "int64" -> [min |-> Wide(TRUE, TwoTo63), max |-> Wide(FALSE, LLONG_MAX)]
    [] T = "uint8" -> [min |-> Wide(FALSE, <<>>),
                       max |-> Wide(FALSE, Digits(<<"2", "5", "5">>))]
    [] T = "uint16" -> [min |-> Wide(FALSE, <<>>),
                        max |-> Wide(FALSE, Digits(<<"6", "5", "5", "3", "5">>))]
    [] T = "uint32" -> [min |-> Wide(FALSE, <<>>),
                        max |-> Wide(FALSE, Digits(<<"4", "2", "9", "4", "9", "6", "7", "2", "9", "5">>))]
    [] T = "uint64" -> [min |-> Wide(FALSE, <<>>), max |-> Wide(FALSE, ULLONG_MAX)]

\* ParseException::outOfRange<T>(val): both overloads take val as an unsigned
\* 64-bit integer (size_t, uint64_t); the message holds toString(val),
\* toString(min) and toString(max)
outOfRange(val, lim) ==
  [val |-> toString(toUint64(val)),
   min |-> toString(lim.min),
   max |-> toString(lim.max)]

\* static_cast<T>(value) of a value within the limits of T
static_cast(T, value) == IF T \in NarrowTypes THEN ToInt(value) ELSE value

\* the range check of fromStr<T> on the result r of the base parse
checkLimits(T, r, lim) ==
  IF r.err # "ok" THEN [err |-> r.err, val |-> 0]
  ELSE IF Less(r.val, lim.min) \/ Less(lim.max, r.val)
       THEN [err |-> "outOfRange", val |-> outOfRange(r.val, lim)]
  ELSE [err |-> "ok", val |-> static_cast(T, r.val)]

\* fromStr<T> for a signed integer type
fromStrSigned(T, str) == checkLimits(T, stoll(str), getLimits(T))

\* fromStr<T> for an unsigned integer type
fromStrUnsigned(T, str) == checkLimits(T, stoull(str), getLimits(T))

RECURSIVE stripTrailingZeros(_)
stripTrailingZeros(d) ==
  IF d # <<>> /\ d[Len(d)] = 0 THEN stripTrailingZeros(SubSeq(d, 1, Len(d) - 1))
  ELSE d

\* strtof / strtod on a decimal subject sequence: white space, an optional
\* sign, digits with an optional '.', and an exponent if 'e' or 'E' is
\* followed by an optionally signed digit; what follows is ignored. The value
\* is held as sign, integer digits, fraction digits and exponent. (The
\* literals of the model have one exponent digit and no "inf", "nan" or
\* hexadecimal form, so the range of float is never left.)
expStart(str, i) ==
  IF i < Len(str) /\ At(str, i) \in {"e", "E"}
  THEN IF i + 1 < Len(str) /\ At(str, i + 1) \in {"-", "+"} THEN i + 2 ELSE i + 1
  ELSE i
scanExponent(str, i, x0) ==
  IF x0 > i /\ digitsEnd(str, x0) > x0
  THEN magToInt(Digits(SubSeq(str, x0 + 1, digitsEnd(str, x0))), 0,
                IF At(str, x0 - 1) = "-" THEN -1 ELSE 1)
  ELSE 0
scanFraction(str, neg, d0, d1, f1) ==
  IF (d1 - d0) + (IF f1 > d1 THEN f1 - d1 - 1 ELSE 0) = 0
  THEN [err |-> "invalid_argument", val |-> 0]
  ELSE [err |-> "ok",
        val |-> [neg |-> neg,
                 int |-> Digits(SubSeq(str, d0 + 1, d1)),
                 frac |-> stripTrailingZeros(
                            [k \in 1..(IF f1 > d1 THEN f1 - d1 - 1 ELSE 0) |->
                               DigitVal(str[d1 + 1 + k])]),
                 exp |-> scanExponent(str, f1, expStart(str, f1))]]
scanMantissa(str, neg, d0, d1) ==
  scanFraction(str, neg, d0, d1,
               IF d1 < Len(str) /\ At(str, d1) = "." THEN digitsEnd(str, d1 + 1)
               ELSE d1)
scanFloatSign(str, s0) ==
  IF s0 < Len(str) /\ At(str, s0) \in {"-", "+"}
  THEN scanMantissa(str, At(str, s0) = "-", s0 + 1, digitsEnd(str, s0 + 1))
  ELSE scanMantissa(str, FALSE, s0, digitsEnd(str, s0))
\* std::stof(str)
stof(str) == scanFloatSign(str, skipSpace(str, 0))
\* std::stod(str)
stod(str) == scanFloatSign(str, skipSpace(str, 0))

\* fromStr<float>
fromStrFloat(str) == stof(str)
\* fromStr<double>
fromStrDouble(str) == stod(str)

\* fromStr<bool>
fromStrBool(str) == [err |-> "ok", val |-> (str = <<"t", "r", "u", "e">>)]

\* fromStr<std::string>
fromStrString(str) == [err |-> "ok", val |-> str]

\* fromStr<V>(str): the value, or the exception thrown
fromStr(V, str) ==
  CASE V \in SignedTypes -> fromStrSigned(V, str)
    [] V \in UnsignedTypes -> fromStrUnsigned(V, str)
    [] V = "float" -> fromStrFloat(str)
    [] V = "double" -> fromStrDouble(str)
    [] V = "bool" -> fromStrBool(str)
    [] V = "string" -> fromStrString(str)

\* mutant: the converted value is not stored
parseValueNoWrite(opt, str, m) ==
  [err |-> fromStr(opt.type, str).err, mem |-> m]

\* mutant: a bool option toggles its target
parseValueToggles(opt, str, m) ==
  LET valV == fromStr(opt.type, str)
  IN IF valV.err # "ok" THEN [err |-> valV.err, mem |-> m]
     ELSE [err |-> "ok",
           mem |-> [m EXCEPT ![opt.value_] =
                      IF opt.type = "bool" THEN ~m[opt.value_] ELSE valV.val]]

\* mutant: the target is reset when the conversion throws
parseValueResets(opt, str, m) ==
  LET valV == fromStr(opt.type, str)
  IN IF valV.err # "ok"
     THEN [err |-> valV.err, mem |-> [m EXCEPT ![opt.value_] = 0]]
     ELSE [err |-> "ok", mem |-> [m EXCEPT ![opt.value_] = valV.val]]

\* Option<V>::parseValue(str) on the caller's storage m: the storage after the
\* call and the exception that left it, if any
parseValue(opt, str, m) ==
  LET valV == fromStr(opt.type, str)
  IN IF valV.err # "ok" THEN [err |-> valV.err, mem |-> m]
     ELSE [err |-> "ok", mem |-> [m EXCEPT ![opt.value_] = valV.val]]

(* ------------------------------ Command -------------------------------- *)
\* mutant: the name of a command is not validated
createCommandUnvalidated(cfg, name) ==
  [err |-> "ok", name_ |-> name, options_ |-> <<>>]

\* Command::createCommand(name)
createCommand(cfg, name) ==
  [err |-> FirstErr(<<NVvalidateName(cfg, name),
                      validateSize(cfg, name, FALSE)>>),
   name_ |-> name,
   options_ |-> <<>>]

\* options_.push_back(std::move(optPtr)); when the factory threw, the
\* statement is not reached and the vector is as it was
push_back(v, ptr) == IF ptr.err # "ok" THEN v ELSE Append(v, ptr)

\* Command::addOption(name, var) on command cmd
CommandAddOption(cfg, cmd, name, V, var) ==
  [cmd EXCEPT !.options_ = push_back(@, createOption(cfg, name, V, var))]

\* std::map<std::string, size_t>::operator[] assignment
MapPut(m, k, v) == [x \in (DOMAIN m) \cup {k} |-> IF x = k THEN v ELSE m[x]]
EmptyMap == [x \in {} |-> 0]

RECURSIVE buildNameMapFirstWins(_, _, _)
\* mutant: a name already in the map keeps its first entry
buildNameMapFirstWins(opts, idx, nameMap) ==
  IF idx >= Len(opts) THEN nameMap
  ELSE LET opt == At(opts, idx)
           sName == shortName(opt)
           lName == longName(opt)
           m1 == IF sName # <<>> /\ sName \notin DOMAIN nameMap
                 THEN MapPut(nameMap, sName, idx) ELSE nameMap
           m2 == IF lName # <<>> /\ lName \notin DOMAIN m1
                 THEN MapPut(m1, lName, idx) ELSE m1
       IN buildNameMapFirstWins(opts, idx + 1, m2)

RECURSIVE buildNameMap(_, _, _)
\* the loop that fills nameMap in parseCommand (and optionMap in
\* buildReconMaps): a later option overwrites the entry of an earlier one
buildNameMap(opts, idx, nameMap) ==
  IF idx >= Len(opts) THEN nameMap
  ELSE LET opt == At(opts, idx)
           sName == shortName(opt)
           lName == longName(opt)
           m1 == IF sName # <<>> THEN MapPut(nameMap, sName, idx) ELSE nameMap
           m2 == IF lName # <<>> THEN MapPut(m1, lName, idx) ELSE m1
       IN buildNameMap(opts, idx + 1, m2)

(* ----------------------------- Application ----------------------------- *)
\* Application::createApp()
createApp == [options_ |-> <<>>, commands_ |-> <<>>]

\* Application::addOption(name, var)
addOption(cfg, a, name, V, var) ==
  [a EXCEPT !.options_ = push_back(@, createOption(cfg, name, V, var))]

\* mutant: the pair is appended whether createCommand threw or not
emplace_backAlways(v, cmdPtr, var) ==
  Append(v, [first |-> cmdPtr, second |-> var])

\* commands_.emplace_back(std::move(cmdPtr), var), not reached when
\* createCommand threw
emplace_back(v, cmdPtr, var) ==
  IF cmdPtr.err # "ok" THEN v ELSE Append(v, [first |-> cmdPtr, second |-> var])

\* Application::addCommand(name, var)
addCommand(cfg, a, name, var) ==
  [a EXCEPT !.commands_ = emplace_back(@, createCommand(cfg, name), var)]

\* the reference addCommand returns, used to add the command's options
WithCommand(cfg, a, cmdIdx, name, V, var) ==
  [a EXCEPT !.commands_[cmdIdx + 1].first =
              CommandAddOption(cfg, @, name, V, var)]

RECURSIVE buildCommandMap(_, _, _)
\* the second loop of buildReconMaps
buildCommandMap(cmds, idx, commandMap) ==
  IF idx >= Len(cmds) THEN commandMap
  ELSE buildCommandMap(cmds, idx + 1,
                       MapPut(commandMap, At(cmds, idx).first.name_, idx))

\* Application::buildReconMaps()
buildReconMaps(a) ==
  [optionMap |-> buildNameMap(a.options_, 0, EmptyMap),
   commandMap |-> buildCommandMap(a.commands_, 0, EmptyMap)]

\* mutant: the program name is kept as the first argument
buildArrayFromZero(argc, argv) == [i \in 1..argc |-> argv[i]]

\* Application::buildArray(argc, argv): argv without the program name
buildArray(argc, argv) == [i \in 1..(argc - 1) |-> argv[i + 1]]

\* Application::buildDuplicateArgNames, and the same loop in parseCommand:
\* the names of nameMap that resolve to targetIdx (the code joins them with
\* ", " in the order of the map; the model keeps them as a set)
buildDuplicateArgNames(nameMap, targetIdx) ==
  {name \in DOMAIN nameMap : nameMap[name] = targetIdx}

(* --------------------------- the caller -------------------------------- *)
\* tests/application_test.cpp: an Application with two global options, a
\* command with its own options (one alias also used globally) and a second
\* command
\* (read from the innermost call outwards: the calls in registration order)
AppA ==
  addCommand(NameValidationConfig,
    WithCommand(NameValidationConfig,
      WithCommand(NameValidationConfig,
        addCommand(NameValidationConfig,
          addOption(NameValidationConfig,
            addOption(NameValidationConfig, createApp,
                      <<"-", "n">>, "int32", "number"),
            <<"-", "v", ",", "-", "-", "v", "e", "r", "b", "o", "s", "e">>,
            "bool", "verbose"),
          <<"s", "e", "r", "v", "e">>, "served"),
        0, <<"-", "p">>, "int8", "port"),
      0, <<"-", "v">>, "bool", "cmdVerbose"),
    <<"b", "u", "i", "l", "d">>, "built")

MemA ==
  [v \in {"number", "verbose", "port", "cmdVerbose", "served", "built"} |->
     IF v \in {"number", "port"} THEN 0 ELSE FALSE]

\* an Application whose second option is registered with the short alias of
\* the first and whose second command is registered with the name of the
\* first (addOption and addCommand do not compare names)
AppB ==
  addCommand(NameValidationConfig,
    WithCommand(NameValidationConfig,
      addCommand(NameValidationConfig,
        addOption(NameValidationConfig,
          addOption(NameValidationConfig, createApp,
                    <<"-", "n", ",", "-", "-", "n", "u", "m", "b", "e", "r">>,
                    "int32", "number"),
          <<"-", "n", ",", "-", "-", "n", "a", "m", "e">>, "string", "name"),
        <<"t", "e", "s", "t">>, "tested"),
      0, <<"-", "v", ",", "-", "-", "v", "a", "l", "u", "e">>, "int32", "value"),
    <<"t", "e", "s", "t">>, "tested2")

MemB ==
  [v \in {"number", "name", "value", "tested", "tested2"} |->
     CASE v \in {"number", "value"} -> 0
       [] v = "name" -> <<>>
       [] OTHER -> FALSE]

Configs == {[app |-> AppA, mem |-> MemA], [app |-> AppB, mem |-> MemB]}

\* the value tokens a caller passes: a literal every integer type takes and,
\* for an Application with an int8_t option, one out of int8_t's range
ValueTokens(a) ==
  IF \E c \in 0..(Len(a.commands_) - 1) :
       \E i \in 0..(Len(At(a.commands_, c).first.options_) - 1) :
         At(At(a.commands_, c).first.options_, i).type = "int8"
  THEN {<<"7">>, <<"3", "0", "0">>}
  ELSE {<<"7">>}

OptionNames(opts) ==
  ({shortName(At(opts, i)) : i \in 0..(Len(opts) - 1)} \cup
   {longName(At(opts, i)) : i \in 0..(Len(opts) - 1)}) \ {<<>>}

\* the tokens a caller passes to parse: the registered names and the values
Tokens(a) ==
  OptionNames(a.options_) \cup
  UNION {OptionNames(At(a.commands_, c).first.options_) :
           c \in 0..(Len(a.commands_) - 1)} \cup
  {At(a.commands_, c).first.name_ : c \in 0..(Len(a.commands_) - 1)} \cup
  ValueTokens(a)

\* the tokens a caller passes to parseCommand of command c: the names of its
\* options, the values, and its own name (which none of its options has)
CommandTokens(a, c) ==
  OptionNames(At(a.commands_, c).first.options_) \cup
  {At(a.commands_, c).first.name_} \cup
  ValueTokens(a)

ProgramName == <<"a", "p", "p">>

ArgLists(S) == UNION {[1..n -> S] : n \in 0..MaxArgs}

(* ------------------------------- state --------------------------------- *)
VARIABLES
  options,        \* NameValidations::options, the process-wide policy
  app,            \* the Application: options_ and commands_
  mem,            \* the caller's variables the options and commands point to
  pc,             \* "idle", "parse", "parseCommand" or "done"
  caller,         \* who called parseCommand: "parse" or "direct"
  calls,          \* calls made so far
  argv,           \* parse's argument vector, the program name first
  args, idx, optionMap, commandMap, parsedOptions,   \* locals of parse
  cmdIdx,         \* the command whose parseCommand runs
  startIdx,       \* processCommand: the position of the command token
  cmdArgs, nameMap, argsIndex, parsed,               \* locals of parseCommand
  outcome,        \* how the last call ended: returned, or the exception
  pre,            \* mem when the call started
  log,            \* what the call did with each name position, in order
  probe,          \* the last direct call of a validator, factory or
                  \* converter: its arguments and what it returned or threw
  lastConfig      \* the argument of the most recent setConfig call, and
                  \* whether it replaced a different policy

\* what a parse or parseCommand call leaves alone
cfgVars == <<options, app, probe, lastConfig>>
parseLocals == <<argv, args, idx, optionMap, commandMap, parsedOptions>>
cmdLocals == <<cmdIdx, startIdx, cmdArgs, nameMap, argsIndex, parsed>>
vars == <<options, app, mem, pc, caller, calls, argv, args, idx, optionMap,
          commandMap, parsedOptions, cmdIdx, startIdx, cmdArgs, nameMap,
          argsIndex, parsed, outcome, pre, log, probe, lastConfig>>

Outcome(kind, arg, names, val) ==
  [kind |-> kind, arg |-> arg, names |-> names, val |-> val]
Returned == Outcome("ok", <<>>, {}, 0)
NoOutcome == Outcome("none", <<>>, {}, 0)

\* ParseException::unknownArg / insufficientValues / multiArg, and what
\* fromStr throws
unknownArg(arg) == Outcome("unknownArg", arg, {}, 0)
insufficientValues(arg) == Outcome("insufficientValues", arg, {}, 0)
multiArg(argNames) == Outcome("multiArg", <<>>, argNames, 0)
conversionError(r) == Outcome(r.err, <<>>, {}, 0)

LogEntry(scope, pos, kind, opt) ==
  [scope |-> scope, pos |-> pos, kind |-> kind, opt |-> opt]

\* no direct call has been made
NoProbe == [op |-> "none"]
\* setConfig has not been called
NoConfig == [op |-> "none"]

Init ==
  /\ probe = NoProbe
  /\ lastConfig = NoConfig
  /\ options = NameValidationConfig
  /\ \E c \in Configs : app = c.app /\ mem = c.mem
  /\ pc = "idle"
  /\ caller = "none"
  /\ calls = 0
  /\ argv = <<>>
  /\ args = <<>> /\ idx = 0 /\ optionMap = EmptyMap /\ commandMap = EmptyMap
  /\ parsedOptions = {}
  /\ cmdIdx = 0 /\ startIdx = 0 /\ cmdArgs = <<>> /\ nameMap = EmptyMap
  /\ argsIndex = 0 /\ parsed = {}
  /\ outcome = NoOutcome
  /\ pre = mem
  /\ log = <<>>

(* ------------------------- Application::parse -------------------------- *)
\* mutant: the slice starts at the command token instead of after it
commandSliceFromCommand(v, start) == SubSeq(v, start + 1, Len(v))

\* processCommand: cmdArgs(args.begin() + startIdx + 1, args.end())
commandSlice(v, start) == SubSeq(v, start + 2, Len(v))

\* mutant: the option is not recorded as satisfied
markParsedDropped(parsedSet, optIdx) == parsedSet

\* processOption: parsedOptions[optIdx] = true
markParsed(parsedSet, optIdx) == parsedSet \cup {optIdx}

\* parse(argc, argv) up to the loop: buildArray, buildReconMaps
parse ==
  /\ pc = "idle"
  /\ calls < MaxCalls
  /\ \E a \in ArgLists(Tokens(app)) : argv' = <<ProgramName>> \o a
  /\ args' = buildArray(Len(argv'), argv')
  /\ LET maps == buildReconMaps(app)
     IN /\ optionMap' = maps.optionMap
        /\ commandMap' = maps.commandMap
  /\ parsedOptions' = {}
  /\ idx' = 0
  /\ pc' = "parse"
  /\ caller' = "none"
  /\ calls' = calls + 1
  /\ outcome' = NoOutcome
  /\ pre' = mem
  /\ log' = <<>>
  /\ UNCHANGED <<cfgVars, mem, cmdLocals>>

\* the loop condition fails: parse returns
parseReturn ==
  /\ pc = "parse"
  /\ idx >= Len(args)
  /\ pc' = "done"
  /\ outcome' = Returned
  /\ UNCHANGED <<cfgVars, mem, caller, calls, parseLocals, cmdLocals, pre, log>>

\* mutant: the command's duplicate check starts from the options parse has
\* already seen
processCommandSharedParsed ==
  /\ pc = "parse"
  /\ idx < Len(args)
  /\ At(args, idx) \in DOMAIN commandMap
  /\ LET c == commandMap[At(args, idx)]
         cmd == At(app.commands_, c).first
     IN /\ cmdIdx' = c
        /\ startIdx' = idx
        /\ cmdArgs' = commandSlice(args, idx)
        /\ nameMap' = buildNameMap(cmd.options_, 0, EmptyMap)
        /\ log' = Append(log, LogEntry("parse", idx, "command", c))
  /\ parsed' = parsedOptions
  /\ argsIndex' = 0
  /\ caller' = "parse"
  /\ pc' = "parseCommand"
  /\ UNCHANGED <<cfgVars, mem, calls, parseLocals, outcome, pre>>
\* the token is a command name: processCommand slices the rest of args and
\* calls the command's parseCommand
processCommand ==
  /\ pc = "parse"
  /\ idx < Len(args)
  /\ At(args, idx) \in DOMAIN commandMap
  /\ LET c == commandMap[At(args, idx)]
         cmd == At(app.commands_, c).first
     IN /\ cmdIdx' = c
        /\ startIdx' = idx
        /\ cmdArgs' = commandSlice(args, idx)
        /\ nameMap' = buildNameMap(cmd.options_, 0, EmptyMap)
        /\ log' = Append(log, LogEntry("parse", idx, "command", c))
  /\ parsed' = {}
  /\ argsIndex' = 0
  /\ caller' = "parse"
  /\ pc' = "parseCommand"
  /\ UNCHANGED <<cfgVars, mem, calls, parseLocals, outcome, pre>>

\* mutant: an unknown token is skipped
parseUnknownSkipped ==
  /\ pc = "parse"
  /\ idx < Len(args)
  /\ At(args, idx) \notin DOMAIN commandMap
  /\ At(args, idx) \notin DOMAIN optionMap
  /\ idx' = idx + 1
  /\ log' = Append(log, LogEntry("parse", idx, "unknown", -1))
  /\ UNCHANGED <<cfgVars, mem, pc, caller, calls, argv, args, optionMap,
                 commandMap, parsedOptions, cmdLocals, outcome, pre>>

\* the token is neither a command name nor an option name
parseUnknown ==
  /\ pc = "parse"
  /\ idx < Len(args)
  /\ At(args, idx) \notin DOMAIN commandMap
  /\ At(args, idx) \notin DOMAIN optionMap
  /\ outcome' = unknownArg(At(args, idx))
  /\ log' = Append(log, LogEntry("parse", idx, "unknown", -1))
  /\ pc' = "done"
  /\ UNCHANGED <<cfgVars, mem, caller, calls, parseLocals, cmdLocals, pre>>

\* mutant: the loop goes on at the value token
processOptionValueLookedUp ==
  /\ pc = "parse"
  /\ idx < Len(args)
  /\ At(args, idx) \notin DOMAIN commandMap
  /\ At(args, idx) \in DOMAIN optionMap
  /\ LET arg == At(args, idx)
         optIdx == optionMap[arg]
         opt == At(app.options_, optIdx)
         Throw(exc, kind, m) ==
           /\ outcome' = exc
           /\ log' = Append(log, LogEntry("parse", idx, kind, optIdx))
           /\ pc' = "done"
           /\ mem' = m
           /\ UNCHANGED <<idx, parsedOptions>>
         Done(r, step, kind) ==
           /\ mem' = r.mem
           /\ idx' = idx + step
           /\ parsedOptions' = markParsed(parsedOptions, optIdx)
           /\ log' = Append(log, LogEntry("parse", idx, kind, optIdx))
           /\ UNCHANGED <<pc, outcome>>
     IN IF optIdx \in parsedOptions
        THEN Throw(multiArg(buildDuplicateArgNames(optionMap, optIdx)),
                   "duplicate", mem)
        ELSE IF needsValue(opt)
        THEN IF idx + 1 >= Len(args)
             THEN Throw(insufficientValues(arg), "insufficient", mem)
             ELSE LET r == parseValue(opt, At(args, idx + 1), mem)
                  IN IF r.err # "ok"
                     THEN Throw(conversionError(r), "convfail", r.mem)
                     ELSE Done(r, 1, "value")
        ELSE Done(parseValue(opt, <<"t", "r", "u", "e">>, mem), 1, "flag")
  /\ UNCHANGED <<cfgVars, caller, calls, argv, args, optionMap, commandMap,
                 cmdLocals, pre>>

\* the token is an option name: processOption, then ++idx of the loop
processOption ==
  /\ pc = "parse"
  /\ idx < Len(args)
  /\ At(args, idx) \notin DOMAIN commandMap
  /\ At(args, idx) \in DOMAIN optionMap
  /\ LET arg == At(args, idx)
         optIdx == optionMap[arg]
         opt == At(app.options_, optIdx)
         Throw(exc, kind, m) ==
           /\ outcome' = exc
           /\ log' = Append(log, LogEntry("parse", idx, kind, optIdx))
           /\ pc' = "done"
           /\ mem' = m
           /\ UNCHANGED <<idx, parsedOptions>>
         Done(r, step, kind) ==
           /\ mem' = r.mem
           /\ idx' = idx + step
           /\ parsedOptions' = markParsed(parsedOptions, optIdx)
           /\ log' = Append(log, LogEntry("parse", idx, kind, optIdx))
           /\ UNCHANGED <<pc, outcome>>
     IN IF optIdx \in parsedOptions
        THEN Throw(multiArg(buildDuplicateArgNames(optionMap, optIdx)),
                   "duplicate", mem)
        ELSE IF needsValue(opt)
        THEN IF idx + 1 >= Len(args)
             THEN Throw(insufficientValues(arg), "insufficient", mem)
             ELSE LET r == parseValue(opt, At(args, idx + 1), mem)
                  IN IF r.err # "ok"
                     THEN Throw(conversionError(r), "convfail", r.mem)
                     ELSE Done(r, 2, "value")
        ELSE Done(parseValue(opt, <<"t", "r", "u", "e">>, mem), 1, "flag")
  /\ UNCHANGED <<cfgVars, caller, calls, argv, args, optionMap, commandMap,
                 cmdLocals, pre>>

(* ------------------------ Command::parseCommand ------------------------ *)
\* mutant: the record of the options a call satisfied outlives the call (an
\* option whose variable was written before counts as satisfied)
parseCommandStaleRecord ==
  /\ pc = "idle"
  /\ calls < MaxCalls
  /\ \E c \in 0..(Len(app.commands_) - 1) :
       /\ cmdIdx' = c
       /\ nameMap' = buildNameMap(At(app.commands_, c).first.options_, 0,
                                  EmptyMap)
       /\ \E a \in ArgLists(CommandTokens(app, c)) : cmdArgs' = a
       /\ parsed' = {k \in 0..(Len(At(app.commands_, c).first.options_) - 1) :
                       LET v == At(At(app.commands_, c).first.options_, k).value_
                       IN mem[v] # (IF At(At(app.commands_, c).first.options_, k).type = "bool"
                                    THEN FALSE ELSE 0)}
  /\ startIdx' = -1
  /\ argsIndex' = 0
  /\ pc' = "parseCommand"
  /\ caller' = "direct"
  /\ calls' = calls + 1
  /\ outcome' = NoOutcome
  /\ pre' = mem
  /\ log' = <<>>
  /\ UNCHANGED <<cfgVars, mem, parseLocals>>

\* the caller calls parseCommand(args) on the reference addCommand returned
parseCommand ==
  /\ pc = "idle"
  /\ calls < MaxCalls
  /\ \E c \in 0..(Len(app.commands_) - 1) :
       /\ cmdIdx' = c
       /\ nameMap' = buildNameMap(At(app.commands_, c).first.options_, 0,
                                  EmptyMap)
       /\ \E a \in ArgLists(CommandTokens(app, c)) : cmdArgs' = a
  /\ startIdx' = -1
  /\ parsed' = {}
  /\ argsIndex' = 0
  /\ pc' = "parseCommand"
  /\ caller' = "direct"
  /\ calls' = calls + 1
  /\ outcome' = NoOutcome
  /\ pre' = mem
  /\ log' = <<>>
  /\ UNCHANGED <<cfgVars, mem, parseLocals>>

\* mutant: the exception restores the caller's variables
parseCommandUnknownRollback ==
  /\ pc = "parseCommand"
  /\ argsIndex < Len(cmdArgs)
  /\ At(cmdArgs, argsIndex) \notin DOMAIN nameMap
  /\ outcome' = unknownArg(At(cmdArgs, argsIndex))
  /\ log' = Append(log, LogEntry("parseCommand", startIdx + 1 + argsIndex,
                                 "unknown", -1))
  /\ pc' = "done"
  /\ mem' = pre
  /\ UNCHANGED <<cfgVars, caller, calls, parseLocals, cmdLocals, pre>>

\* the token is not a name of the command's nameMap
parseCommandUnknown ==
  /\ pc = "parseCommand"
  /\ argsIndex < Len(cmdArgs)
  /\ At(cmdArgs, argsIndex) \notin DOMAIN nameMap
  /\ outcome' = unknownArg(At(cmdArgs, argsIndex))
  /\ log' = Append(log, LogEntry("parseCommand", startIdx + 1 + argsIndex,
                                 "unknown", -1))
  /\ pc' = "done"
  /\ UNCHANGED <<cfgVars, mem, caller, calls, parseLocals, cmdLocals, pre>>

\* mutant: the value is looked for and converted before the duplicate check
parseCommandOptionValueFirst ==
  /\ pc = "parseCommand"
  /\ argsIndex < Len(cmdArgs)
  /\ At(cmdArgs, argsIndex) \in DOMAIN nameMap
  /\ LET arg == At(cmdArgs, argsIndex)
         argIdx == nameMap[arg]
         opt == At(At(app.commands_, cmdIdx).first.options_, argIdx)
         pos == startIdx + 1 + argsIndex
         Throw(exc, kind, m) ==
           /\ outcome' = exc
           /\ log' = Append(log, LogEntry("parseCommand", pos, kind, argIdx))
           /\ pc' = "done"
           /\ mem' = m
           /\ UNCHANGED <<argsIndex, parsed>>
         Done(r, step, kind) ==
           /\ mem' = r.mem
           /\ argsIndex' = argsIndex + step
           /\ parsed' = parsed \cup {argIdx}
           /\ log' = Append(log, LogEntry("parseCommand", pos, kind, argIdx))
           /\ UNCHANGED <<pc, outcome>>
     IN IF needsValue(opt) /\ argsIndex + 1 >= Len(cmdArgs)
        THEN Throw(insufficientValues(arg), "insufficient", mem)
        ELSE IF needsValue(opt)
                /\ parseValue(opt, At(cmdArgs, argsIndex + 1), mem).err # "ok"
        THEN Throw(conversionError(parseValue(opt, At(cmdArgs, argsIndex + 1), mem)),
                   "convfail", mem)
        ELSE IF argIdx \in parsed
        THEN Throw(multiArg({name \in DOMAIN nameMap : nameMap[name] = argIdx}),
                   "duplicate", mem)
        ELSE IF needsValue(opt)
        THEN Done(parseValue(opt, At(cmdArgs, argsIndex + 1), mem), 2, "value")
        ELSE Done(parseValue(opt, <<"t", "r", "u", "e">>, mem), 1, "flag")
  /\ UNCHANGED <<cfgVars, caller, calls, parseLocals, cmdIdx, startIdx,
                 cmdArgs, nameMap, pre>>

\* one iteration of the loop of parseCommand on a known name
parseCommandOption ==
  /\ pc = "parseCommand"
  /\ argsIndex < Len(cmdArgs)
  /\ At(cmdArgs, argsIndex) \in DOMAIN nameMap
  /\ LET arg == At(cmdArgs, argsIndex)
         argIdx == nameMap[arg]
         opt == At(At(app.commands_, cmdIdx).first.options_, argIdx)
         pos == startIdx + 1 + argsIndex
         Throw(exc, kind, m) ==
           /\ outcome' = exc
           /\ log' = Append(log, LogEntry("parseCommand", pos, kind, argIdx))
           /\ pc' = "done"
           /\ mem' = m
           /\ UNCHANGED <<argsIndex, parsed>>
         Done(r, step, kind) ==
           /\ mem' = r.mem
           /\ argsIndex' = argsIndex + step
           /\ parsed' = parsed \cup {argIdx}
           /\ log' = Append(log, LogEntry("parseCommand", pos, kind, argIdx))
           /\ UNCHANGED <<pc, outcome>>
     IN IF argIdx \in parsed
        THEN Throw(multiArg({name \in DOMAIN nameMap : nameMap[name] = argIdx}),
                   "duplicate", mem)
        ELSE IF needsValue(opt)
        THEN IF argsIndex + 1 >= Len(cmdArgs)
             THEN Throw(insufficientValues(arg), "insufficient", mem)
             ELSE LET r == parseValue(opt, At(cmdArgs, argsIndex + 1), mem)
                  IN IF r.err # "ok"
                     THEN Throw(conversionError(r), "convfail", r.mem)
                     ELSE Done(r, 2, "value")
        ELSE Done(parseValue(opt, <<"t", "r", "u", "e">>, mem), 1, "flag")
  /\ UNCHANGED <<cfgVars, caller, calls, parseLocals, cmdIdx, startIdx,
                 cmdArgs, nameMap, pre>>

\* mutant: processCommand does not set the flag
parseCommandReturnNoFlag ==
  /\ pc = "parseCommand"
  /\ argsIndex >= Len(cmdArgs)
  /\ pc' = "done"
  /\ outcome' = Returned
  /\ UNCHANGED <<cfgVars, mem, caller, calls, parseLocals, cmdLocals, pre, log>>

\* mutant: the flag of every command registered with the matched name is set
parseCommandReturnAllNamed ==
  /\ pc = "parseCommand"
  /\ argsIndex >= Len(cmdArgs)
  /\ mem' = IF caller = "parse"
            THEN [v \in DOMAIN mem |->
                    IF \E c \in 0..(Len(app.commands_) - 1) :
                         /\ At(app.commands_, c).second = v
                         /\ At(app.commands_, c).first.name_ =
                              At(app.commands_, cmdIdx).first.name_
                    THEN TRUE ELSE mem[v]]
            ELSE mem
  /\ pc' = "done"
  /\ outcome' = Returned
  /\ UNCHANGED <<cfgVars, caller, calls, parseLocals, cmdLocals, pre, log>>

\* mutant: processCommand clears the flags of the other commands
parseCommandReturnExclusive ==
  /\ pc = "parseCommand"
  /\ argsIndex >= Len(cmdArgs)
  /\ mem' = IF caller = "parse"
            THEN [v \in DOMAIN mem |->
                    IF v = At(app.commands_, cmdIdx).second THEN TRUE
                    ELSE IF \E c \in 1..Len(app.commands_) :
                              app.commands_[c].second = v
                    THEN FALSE ELSE mem[v]]
            ELSE mem
  /\ pc' = "done"
  /\ outcome' = Returned
  /\ UNCHANGED <<cfgVars, caller, calls, parseLocals, cmdLocals, pre, log>>

\* the loop of parseCommand ends: it returns; under parse, processCommand then
\* sets *executed and parse leaves its loop (break) and returns
parseCommandReturn ==
  /\ pc = "parseCommand"
  /\ argsIndex >= Len(cmdArgs)
  /\ mem' = IF caller = "parse"
            THEN [mem EXCEPT ![At(app.commands_, cmdIdx).second] = TRUE]
            ELSE mem
  /\ pc' = "done"
  /\ outcome' = Returned
  /\ UNCHANGED <<cfgVars, caller, calls, parseLocals, cmdLocals, pre, log>>

\* the caller has the result (or has caught the exception) and goes on; the
\* locals of the call are gone
resume ==
  /\ pc = "done"
  /\ pc' = "idle"
  /\ caller' = "none"
  /\ argv' = <<>>
  /\ args' = <<>> /\ idx' = 0 /\ optionMap' = EmptyMap
  /\ commandMap' = EmptyMap /\ parsedOptions' = {}
  /\ cmdIdx' = 0 /\ startIdx' = 0 /\ cmdArgs' = <<>> /\ nameMap' = EmptyMap
  /\ argsIndex' = 0 /\ parsed' = {}
  /\ outcome' = NoOutcome
  /\ pre' = mem
  /\ log' = <<>>
  /\ UNCHANGED <<cfgVars, mem, calls>>

Next ==
  \/ parse
  \/ parseReturn
  \/ processCommand
  \/ parseUnknown
  \/ processOption
  \/ parseCommand
  \/ parseCommandUnknown
  \/ parseCommandOption
  \/ parseCommandReturn
  \/ resume

Spec == Init /\ [][Next]_vars

TypeOK ==
  /\ pc \in {"idle", "parse", "parseCommand", "done"}
  /\ calls \in 0..MaxCalls
  /\ idx \in 0..Len(args)
  /\ argsIndex \in 0..Len(cmdArgs)

(* ------------------------ vocabulary of the claims --------------------- *)
Indices(v) == 0..(Len(v) - 1)
Aliases(opt) == {shortName(opt), longName(opt)} \ {<<>>}
CommandNames == {At(app.commands_, c).first.name_ : c \in Indices(app.commands_)}
Flags == {At(app.commands_, c).second : c \in Indices(app.commands_)}

\* the options a scope resolves names against: the global options for
\* "parse", the options of the running command for "parseCommand"
ScopeOptions(scope) ==
  IF scope = "parse" THEN app.options_
  ELSE At(app.commands_, cmdIdx).first.options_

\* a token names an option of opts: some option has it as an alias
IsAlias(opts, tok) == \E k \in Indices(opts) : tok \in Aliases(At(opts, k))

\* the option a name resolves to: the last registered one with that alias
Resolve(opts, tok) ==
  CHOOSE k \in Indices(opts) :
    /\ tok \in Aliases(At(opts, k))
    /\ \A j \in Indices(opts) : tok \in Aliases(At(opts, j)) => j <= k

\* the argument list of the call and the loop's position in it
InParse == pc = "parse" /\ idx < Len(args)
InCommand == pc = "parseCommand" /\ argsIndex < Len(cmdArgs)
CallArgs == IF caller = "direct" THEN cmdArgs ELSE args
Ended == pc = "done"
Raised == pc = "done" /\ outcome.kind # "ok"

\* option k of the scope was given its value earlier in this call
Satisfied(scope, k) ==
  \E e \in 1..Len(log) :
    log[e].scope = scope /\ log[e].opt = k /\ log[e].kind \in {"value", "flag"}

(* ------------------------------- claims -------------------------------- *)

\* C1 as stated: a token equal to a registered command name, wherever it is in
\* the argument list of Application.parse, stops global parsing: no later
\* position is processed at the global level, and a call that returns has
\* routed the tokens after the first such token to that command.
C1_Original ==
  (Ended /\ caller # "direct") =>
    \A i \in Indices(args) :
      At(args, i) \in CommandNames =>
        /\ \A e \in 1..Len(log) : log[e].scope = "parse" => log[e].pos <= i
        /\ (outcome.kind = "ok" /\ \A j \in 0..(i - 1) : At(args, j) \notin CommandNames)
             => /\ caller = "parse"
                /\ cmdArgs = SubSeq(args, i + 2, Len(args))

\* C1 (amended): a token equal to a registered command name that the loop of
\* Application.parse reaches in a name position stops global parsing: the
\* tokens after it, in order, become the argument list of that command's
\* parseCommand, and until the call ends nothing is processed at the global
\* level any more.
C1_CommandStopsGlobalParsing ==
  /\ [][(InParse /\ At(args, idx) \in CommandNames) =>
          /\ pc' = "parseCommand"
          /\ caller' = "parse"
          /\ At(app.commands_, cmdIdx').first.name_ = At(args, idx)
          /\ cmdArgs' = SubSeq(args, idx + 2, Len(args))
          /\ argsIndex' = 0
          /\ mem' = mem]_vars
  /\ [][pc = "parseCommand" =>
          /\ pc' \in {"parseCommand", "done"}
          /\ UNCHANGED <<args, idx, parsedOptions, cmdArgs, cmdIdx>>]_vars

\* a command token after a global option, with tokens after it that the
\* command has processed
C1_Witness ==
  /\ Ended /\ caller = "parse" /\ outcome.kind = "ok"
  /\ startIdx > 0
  /\ Len(cmdArgs) > 0
  /\ mem[At(app.commands_, cmdIdx).second] = TRUE

\* C2 as stated: after Application.parse ends (returns or raises), started with
\* all executed flags false, a command's flag is true iff that command was
\* matched by a command token during the call.
C2_Original ==
  (Ended /\ caller # "direct" /\ \A f \in Flags : pre[f] = FALSE) =>
    \A c \in Indices(app.commands_) :
      mem[At(app.commands_, c).second] = TRUE
        <=> (caller = "parse" /\ cmdIdx = c)

\* C2 (amended): after Application.parse ends, started with all executed flags
\* false, a command's flag is true iff that command was matched by a command
\* token during the call and its parseCommand returned without raising.
C2_ExecutedIffMatchedAndParsed ==
  (Ended /\ caller # "direct" /\ \A f \in Flags : pre[f] = FALSE) =>
    \A c \in Indices(app.commands_) :
      mem[At(app.commands_, c).second] = TRUE
        <=> (caller = "parse" /\ cmdIdx = c /\ outcome.kind = "ok")

\* a matched command whose parseCommand raised: its flag is still false
C2_Witness ==
  /\ Raised /\ caller = "parse"
  /\ \A f \in Flags : pre[f] = FALSE /\ mem[f] = FALSE

\* C3: in one Application.parse call at most one executed flag goes from false
\* to true; started with all flags false, at most one flag is true at any
\* point of the call and at its end.
C3_AtMostOneCommand ==
  caller # "direct" =>
    /\ Cardinality({f \in Flags : pre[f] = FALSE /\ mem[f] = TRUE}) <= 1
    /\ (\A f \in Flags : pre[f] = FALSE) =>
         Cardinality({f \in Flags : mem[f] = TRUE}) <= 1

\* the call ran one command of an Application that has another one
C3_Witness ==
  /\ Ended /\ caller = "parse" /\ outcome.kind = "ok"
  /\ \A f \in Flags : pre[f] = FALSE
  /\ Cardinality({f \in Flags : mem[f] = TRUE}) = 1
  /\ \E c \in Indices(app.commands_) :
       /\ At(app.commands_, c).first.name_ # At(args, startIdx)
       /\ mem[At(app.commands_, c).second] = FALSE

\* the token at the name position the loop of the scope is at
Tok(scope) == IF scope = "parse" THEN At(args, idx) ELSE At(cmdArgs, argsIndex)
AtName(scope) == IF scope = "parse" THEN InParse ELSE InCommand
\* the token after it, if any
HasNext(scope) ==
  IF scope = "parse" THEN idx + 1 < Len(args) ELSE argsIndex + 1 < Len(cmdArgs)
NextTok(scope) ==
  IF scope = "parse" THEN At(args, idx + 1) ELSE At(cmdArgs, argsIndex + 1)
\* the loop of the scope goes on, n tokens further
Advances(scope, n) ==
  IF scope = "parse" THEN pc' = "parse" /\ idx' = idx + n
  ELSE pc' = "parseCommand" /\ argsIndex' = argsIndex + n
\* the call ends with the exception kind, carrying the token tok
Raises(kind, tok) ==
  pc' = "done" /\ outcome'.kind = kind /\ outcome'.arg = tok /\ mem' = mem
Scopes == {"parse", "parseCommand"}
\* the scope the caller entered, its options, and every registered option
CallScope == IF caller = "direct" THEN "parseCommand" ELSE "parse"
AllOptions ==
  {At(app.options_, k) : k \in Indices(app.options_)} \cup
  UNION {{At(At(app.commands_, c).first.options_, k) :
            k \in Indices(At(app.commands_, c).first.options_)} :
           c \in Indices(app.commands_)}
\* the log entries that wrote a target
Wrote(e) == log[e].kind \in {"value", "flag"}
LogOption(e) ==
  IF log[e].scope = "parse" THEN At(app.options_, log[e].opt)
  ELSE At(At(app.commands_, cmdIdx).first.options_, log[e].opt)

\* C4 as stated: when any alias of an option satisfied earlier in the call is
\* in a name position again, the call raises the duplicate-argument exception.
C4_Original ==
  [][\A scope \in Scopes :
       (/\ AtName(scope)
        /\ \E k \in Indices(ScopeOptions(scope)) :
             /\ Satisfied(scope, k)
             /\ Tok(scope) \in Aliases(At(ScopeOptions(scope), k)))
         => (pc' = "done" /\ outcome'.kind = "multiArg")]_vars

\* C4 (amended): in parse and in parseCommand, when the token in a name
\* position resolves (an alias several options registered resolves to the
\* last of them) to an option satisfied earlier in the same call, by whichever
\* of its aliases, the call raises the duplicate-argument exception and
\* writes nothing; so parseValue runs at most once per option and call.
C4_DuplicateRejected ==
  /\ [][\A scope \in Scopes :
          (/\ AtName(scope)
           /\ IsAlias(ScopeOptions(scope), Tok(scope))
           /\ Satisfied(scope, Resolve(ScopeOptions(scope), Tok(scope))))
            => (pc' = "done" /\ outcome'.kind = "multiArg" /\ mem' = mem)]_vars
  /\ [](\A scope \in Scopes : \A k \in Indices(ScopeOptions(scope)) :
          Cardinality({e \in 1..Len(log) :
                         /\ log[e].scope = scope /\ log[e].opt = k
                         /\ log[e].kind \in {"value", "flag", "convfail"}}) <= 1)

\* an option given by one alias and then by its other alias
C4_Witness ==
  /\ Ended /\ outcome.kind = "multiArg"
  /\ \E e \in 1..Len(log) :
       /\ Wrote(e)
       /\ log[e].scope = log[Len(log)].scope
       /\ log[e].opt = log[Len(log)].opt
       /\ At(CallArgs, log[e].pos) # At(CallArgs, log[Len(log)].pos)

\* C5: in parse and in parseCommand, when the last token of the list is matched
\* as an option of a non-bool type that is not yet satisfied, the call raises
\* the insufficient-values exception naming that token and writes no target.
C5_InsufficientValues ==
  [][\A scope \in Scopes :
       (/\ AtName(scope)
        /\ ~HasNext(scope)
        /\ IsAlias(ScopeOptions(scope), Tok(scope))
        /\ LET k == Resolve(ScopeOptions(scope), Tok(scope))
           IN At(ScopeOptions(scope), k).type # "bool" /\ ~Satisfied(scope, k))
         => Raises("insufficientValues", Tok(scope))]_vars

\* a value-needing option as the last token, after another option was set
C5_Witness ==
  /\ Ended /\ outcome.kind = "insufficientValues"
  /\ \E e \in 1..Len(log) : Wrote(e)
  /\ outcome.arg = At(CallArgs, Len(CallArgs) - 1)

\* C6: a token in a name position of parse that is neither an alias of a global
\* option nor a command name, and a token in a name position of parseCommand
\* that is no alias of an option of that command, makes the call raise the
\* unknown-argument exception carrying that token.
C6_UnknownArgument ==
  [][/\ (/\ InParse
         /\ At(args, idx) \notin CommandNames
         /\ ~IsAlias(app.options_, At(args, idx)))
          => Raises("unknownArg", At(args, idx))
     /\ (/\ InCommand
         /\ ~IsAlias(ScopeOptions("parseCommand"), At(cmdArgs, argsIndex)))
          => Raises("unknownArg", At(cmdArgs, argsIndex))]_vars

\* a command run by parse meets an alias of a global option that is none of
\* its own
C6_Witness ==
  /\ Ended /\ outcome.kind = "unknownArg" /\ caller = "parse"
  /\ IsAlias(app.options_, outcome.arg)
  /\ ~IsAlias(ScopeOptions("parseCommand"), outcome.arg)

\* the options the caller's list is resolved against first
CallOptions == ScopeOptions(CallScope)
\* the call was handed the two tokens [alias of opt, a value opt's type takes]
AliasThenValue(opt) ==
  /\ Len(CallArgs) = 2
  /\ At(CallArgs, 0) \in Aliases(opt)
  /\ fromStr(opt.type, At(CallArgs, 1)).err = "ok"
\* no option registered later has an alias of option k of opts
Unshadowed(opts, k) ==
  \A n \in Aliases(At(opts, k)) : Resolve(opts, n) = k

\* C7 as stated: for every value-needing option with both aliases and every
\* token v its converter accepts, parsing [long, v] and parsing [short, v]
\* succeed and leave the option's target equal to the converted v.
C7_Original ==
  Ended =>
    \A k \in Indices(CallOptions) :
      LET opt == At(CallOptions, k)
      IN (/\ opt.type # "bool"
          /\ shortName(opt) # <<>> /\ longName(opt) # <<>>
          /\ AliasThenValue(opt))
           => /\ outcome.kind = "ok"
              /\ mem[opt.value_] = fromStr(opt.type, At(CallArgs, 1)).val

\* C7 (amended): for every value-needing option with both aliases, neither of
\* them registered again by a later option of the same Application or
\* Command, and every token v its converter accepts: parsing [long, v] and
\* parsing [short, v] succeed and leave the target equal to the converted v
\* and every other variable as it was; and wherever a name position resolves
\* to a value-needing option not yet satisfied and the next token converts,
\* the target is written with the converted token and the loop goes on two
\* tokens further.
C7_ValueRoundTrip ==
  /\ [](Ended =>
          \A k \in Indices(CallOptions) :
            LET opt == At(CallOptions, k)
            IN (/\ opt.type # "bool"
                /\ shortName(opt) # <<>> /\ longName(opt) # <<>>
                /\ Unshadowed(CallOptions, k)
                /\ AliasThenValue(opt))
                 => /\ outcome.kind = "ok"
                    /\ mem = [pre EXCEPT ![opt.value_] =
                                fromStr(opt.type, At(CallArgs, 1)).val])
  /\ [][\A scope \in Scopes :
          (/\ AtName(scope)
           /\ HasNext(scope)
           /\ IsAlias(ScopeOptions(scope), Tok(scope))
           /\ LET k == Resolve(ScopeOptions(scope), Tok(scope))
                  opt == At(ScopeOptions(scope), k)
              IN /\ opt.type # "bool"
                 /\ ~Satisfied(scope, k)
                 /\ fromStr(opt.type, NextTok(scope)).err = "ok")
            => LET opt == At(ScopeOptions(scope),
                             Resolve(ScopeOptions(scope), Tok(scope)))
               IN /\ mem' = [mem EXCEPT ![opt.value_] =
                               fromStr(opt.type, NextTok(scope)).val]
                  /\ Advances(scope, 2)]_vars

\* [short, v] was parsed into an integer target that held another value, the
\* digits of v converted to the number
C7_Witness ==
  /\ Ended /\ outcome.kind = "ok"
  /\ \E k \in Indices(CallOptions) :
       LET opt == At(CallOptions, k)
       IN /\ opt.type = "int32"
          /\ Unshadowed(CallOptions, k)
          /\ AliasThenValue(opt)
          /\ At(CallArgs, 0) = shortName(opt)
          /\ longName(opt) # <<>>
          /\ mem[opt.value_] = 7
          /\ pre[opt.value_] # 7

\* C8: a bool option is a presence flag: when a name position resolves to a
\* bool option not yet satisfied, its target becomes true, one token is
\* consumed and the next token is the next name position; a bool option none
\* of whose aliases is in the argument list keeps its value.
C8_BoolFlag ==
  /\ [][\A scope \in Scopes :
          (/\ AtName(scope)
           /\ IsAlias(ScopeOptions(scope), Tok(scope))
           /\ LET k == Resolve(ScopeOptions(scope), Tok(scope))
              IN /\ At(ScopeOptions(scope), k).type = "bool"
                 /\ ~Satisfied(scope, k))
            => LET opt == At(ScopeOptions(scope),
                             Resolve(ScopeOptions(scope), Tok(scope)))
               IN /\ mem' = [mem EXCEPT ![opt.value_] = TRUE]
                  /\ Advances(scope, 1)]_vars
  /\ [](\A opt \in AllOptions :
          (/\ opt.type = "bool"
           /\ \A i \in Indices(CallArgs) : At(CallArgs, i) \notin Aliases(opt))
            => mem[opt.value_] = pre[opt.value_])

\* a flag was set, the token after it was processed as a name, and a bool
\* option that was true before and is not in the list is still true
C8_Witness ==
  /\ Ended
  /\ \E e \in 1..Len(log) :
       /\ log[e].kind = "flag"
       /\ pre[LogOption(e).value_] = FALSE
       /\ mem[LogOption(e).value_] = TRUE
       /\ e < Len(log)
       /\ log[e + 1].pos = log[e].pos + 1
  /\ \E opt \in AllOptions :
       /\ opt.type = "bool"
       /\ \A i \in Indices(CallArgs) : At(CallArgs, i) \notin Aliases(opt)
       /\ pre[opt.value_] = TRUE

\* C9: after any parse or parseCommand call, returned or raised, the target of
\* every registered option none of whose aliases was processed in a name
\* position holds its pre-call value; a call with an empty argument list
\* returns and leaves every target and every executed flag as it was.
C9_UnmentionedUnchanged ==
  Ended =>
    /\ \A opt \in AllOptions :
         (\A e \in 1..Len(log) : At(CallArgs, log[e].pos) \notin Aliases(opt))
           => mem[opt.value_] = pre[opt.value_]
    /\ ((caller # "direct" /\ Len(argv) = 1) \/ (caller = "direct" /\ cmdArgs = <<>>))
         => (outcome.kind = "ok" /\ mem = pre)

\* a call that set one option and left another at the value an earlier call
\* gave it
C9_Witness ==
  /\ Ended
  /\ \E e \in 1..Len(log) : Wrote(e)
  /\ \E opt \in AllOptions :
       /\ \A e \in 1..Len(log) : At(CallArgs, log[e].pos) \notin Aliases(opt)
       /\ opt.type = "int32"
       /\ mem[opt.value_] = 7

\* what a call that wrote var left in it: the value of its last write
LastWrite(var) ==
  LET e == CHOOSE e \in 1..Len(log) :
             /\ Wrote(e) /\ LogOption(e).value_ = var
             /\ \A f \in 1..Len(log) :
                  (Wrote(f) /\ LogOption(f).value_ = var) => f <= e
  IN IF log[e].kind = "flag" THEN TRUE
     ELSE fromStr(LogOption(e).type, At(CallArgs, log[e].pos + 1)).val

\* C10: a call that raises rolls nothing back: the targets of the options
\* processed before the fault hold the values written in this call, every
\* other variable holds its pre-call value, and the faulting position is the
\* last one processed, after the positions processed before it.
C10_NoRollback ==
  Raised =>
    /\ \A var \in DOMAIN mem :
         mem[var] = IF \E e \in 1..Len(log) : Wrote(e) /\ LogOption(e).value_ = var
                    THEN LastWrite(var)
                    ELSE pre[var]
    /\ Len(log) > 0
    /\ ~Wrote(Len(log)) /\ log[Len(log)].kind # "command"
    /\ \A e \in 1..(Len(log) - 1) :
         /\ Wrote(e) \/ log[e].kind = "command"
         /\ log[e].pos < log[e + 1].pos

\* a raise after an option was written with a new value, an option named after
\* the fault holding its old value
C10_Witness ==
  /\ Raised
  /\ \E e \in 1..Len(log) :
       Wrote(e) /\ mem[LogOption(e).value_] # pre[LogOption(e).value_]
  /\ \E k \in Indices(CallOptions) : \E i \in Indices(CallArgs) :
       /\ i > log[Len(log)].pos
       /\ At(CallArgs, i) \in Aliases(At(CallOptions, k))
       /\ \A e \in 1..Len(log) :
            log[e].kind \notin {"command", "unknown"}
              => LogOption(e) # At(CallOptions, k)

\* the variables bound to the options of opts
Targets(opts) == {At(opts, k).value_ : k \in Indices(opts)}
\* m2 is m1 but for the variable var
OnlyChanged(m1, m2, var) == \A v \in DOMAIN m1 : v # var => m2[v] = m1[v]

\* C11: a token before the command token is resolved against the global
\* options only and a token after it against the matched command's options
\* only: a step of the global loop writes nothing but the target of the global
\* option its token resolves to, a step of the command's loop nothing but the
\* target of the command option its token resolves to; an alias of a command
\* option that the command has not been given yet never raises the
\* duplicate-argument error, whatever parse did with the same alias before the
\* command token; and once the command runs, no global target changes any more.
C11_ScopesSeparate ==
  /\ [][\A scope \in Scopes :
          (pc = scope /\ AtName(scope) /\ mem' # mem)
            => /\ IsAlias(ScopeOptions(scope), Tok(scope))
               /\ OnlyChanged(mem, mem',
                    At(ScopeOptions(scope),
                       Resolve(ScopeOptions(scope), Tok(scope))).value_)]_vars
  /\ [][(InCommand /\ caller = "parse"
         /\ IsAlias(ScopeOptions("parseCommand"), Tok("parseCommand"))
         /\ ~Satisfied("parseCommand",
                       Resolve(ScopeOptions("parseCommand"),
                               Tok("parseCommand"))))
          => outcome'.kind # "multiArg"]_vars
  /\ [][(pc = "parseCommand" /\ caller = "parse")
          => \A v \in Targets(app.options_) : mem'[v] = mem[v]]_vars

\* reached: in one parse call an alias shared by a global flag and a flag of
\* the command was given once before the command token and once after it;
\* both targets were written and the call returned
C11_Witness ==
  /\ Ended /\ outcome.kind = "ok" /\ caller = "parse" /\ calls = 1
  /\ \E e, f \in 1..Len(log) :
       /\ log[e].scope = "parse" /\ log[e].kind = "flag"
       /\ log[f].scope = "parseCommand" /\ log[f].kind = "flag"
       /\ At(args, log[e].pos) = At(args, log[f].pos)
       /\ LogOption(e).value_ # LogOption(f).value_
       /\ pre[LogOption(e).value_] = FALSE /\ mem[LogOption(e).value_] = TRUE
       /\ pre[LogOption(f).value_] = FALSE /\ mem[LogOption(f).value_] = TRUE

(* ------------- direct calls of the validators and factories ------------ *)
\* longest name the caller builds character by character
MaxNameLen == 3
\* longest half of an option spec built character by character
MaxHalfLen == 2
\* commands the caller adds to one Application
MaxCommands == 1

Rep(ch, n) == [i \in 1..n |-> ch]
Strings(S, n) == UNION {[1..k -> S] : k \in 0..n}

\* NameValidations::setConfig(config): the policies a caller installs, the
\* default one, the limits of the tests and each charset flag flipped
Policies ==
  {[shortNameLimit |-> lim[1], longNameLimit |-> lim[2],
    nameContainsDots |-> f[1], nameContainsDashes |-> f[2],
    nameContainsUnderscores |-> f[3], reserverNames |-> <<>>] :
     lim \in {<<defaultShortLimit, defaultLongLimit>>, <<2, 20>>},
     f \in {<<FALSE, TRUE, TRUE>>, <<TRUE, TRUE, TRUE>>,
            <<FALSE, FALSE, TRUE>>, <<FALSE, TRUE, FALSE>>}}

\* names passed to validateName, validateSize and createCommand: every string
\* of up to MaxNameLen characters and names at the length limits
NameChars == {"a", "Z", "7", "-", "_", "."}
NameInputs ==
  Strings(NameChars, MaxNameLen) \cup
  {<<"a", "b", "c", "d">>, <<"a", ".", "c", "d">>, <<"a", "b", "-", "d">>, <<"a", "b", "_", "d">>, <<"7", "b", "c", "d">>, <<"s", "e", "r", "v", "e">>,
   <<"a", "@">>, <<"@", "a">>, <<"a", " ", "b">>, <<" ", "a">>, <<"a", "b", "c", "@">>,
   Rep("a", 20), Rep("a", 21), Rep("a", 100), Rep("a", 101)}

\* halves of option specs
HalfChars == {"a", "7", "-"}
ShortHalves == Strings(HalfChars, MaxHalfLen) \cup {<<"a", "b", "c">>, <<"a", "b", "c", "d">>, <<"a", "_", "c">>}
LongHalves ==
  {<<>>, <<"a", "b", "c">>, <<"a", "b", "c", "d">>, <<"a", ".", "c", "d">>, <<"a", "b", "-", "d">>, <<"a", "b", "_", "d">>, <<"7", "b", "c", "d">>, <<"a", "b", " ", "d">>,
   Rep("a", 20), Rep("a", 21), Rep("a", 100), Rep("a", 101)}
Pads == {<<>>, <<" ", "\t">>}

\* "<pad>[-]short<pad>,<pad>[--]long<pad>"
CombinedSpec(p, q, sd, s, ld, l) == p \o sd \o s \o q \o <<",">> \o q \o ld \o l \o p
\* "<pad><dashes><pad>name<pad>"
SingleSpec(p, q, d, n) == p \o d \o q \o n \o p

\* the last direct call: what was called, with which arguments (for a
\* createOption call the parts the spec string was put together from), and
\* what came back
Probe(op, name, isShort, parts, out) ==
  [op |-> op, name |-> name, isShort |-> isShort, parts |-> parts, out |-> out]
NoParts == [kind |-> "none"]

InitBuild ==
  /\ probe = NoProbe
  /\ lastConfig = NoConfig
  /\ options = NameValidationConfig
  /\ app = createApp
  /\ mem = [v \in {"flag"} |-> FALSE]
  /\ pc = "idle"
  /\ caller = "none"
  /\ calls = 0
  /\ argv = <<>>
  /\ args = <<>> /\ idx = 0 /\ optionMap = EmptyMap /\ commandMap = EmptyMap
  /\ parsedOptions = {}
  /\ cmdIdx = 0 /\ startIdx = 0 /\ cmdArgs = <<>> /\ nameMap = EmptyMap
  /\ argsIndex = 0 /\ parsed = {}
  /\ outcome = NoOutcome
  /\ pre = mem
  /\ log = <<>>

\* what the direct calls leave alone
callVars == <<mem, caller, calls, parseLocals, cmdLocals, outcome, pre, log,
              lastConfig>>

\* mutant: a separator enabled once stays enabled
setConfigMerged ==
  /\ pc = "idle"
  /\ \E config \in Policies :
       /\ options' = [config EXCEPT
                        !.nameContainsDots = @ \/ options.nameContainsDots]
       /\ lastConfig' = [op |-> "setConfig", config |-> config,
                         replaced |-> (options # config)]
  /\ UNCHANGED <<app, probe, pc, mem, caller, calls, parseLocals, cmdLocals,
                 outcome, pre, log>>

\* NameValidations::setConfig(config)
setConfig ==
  /\ pc = "idle"
  /\ \E config \in Policies :
       /\ options' = config
       /\ lastConfig' = [op |-> "setConfig", config |-> config,
                         replaced |-> (options # config)]
  /\ UNCHANGED <<app, probe, pc, mem, caller, calls, parseLocals, cmdLocals,
                 outcome, pre, log>>

\* the caller calls NameValidations::validateName(name)
callValidateName ==
  /\ pc = "idle"
  /\ \E name \in NameInputs :
       probe' = Probe("validateName", name, FALSE, NoParts,
                      NVvalidateName(options, name))
  /\ pc' = "done"
  /\ UNCHANGED <<options, app, callVars>>

\* the caller calls NameValidations::validateSize(name, isShort)
callValidateSize ==
  /\ pc = "idle"
  /\ \E name \in NameInputs, isShort \in BOOLEAN :
       probe' = Probe("validateSize", name, isShort, NoParts,
                      validateSize(options, name, isShort))
  /\ pc' = "done"
  /\ UNCHANGED <<options, app, callVars>>

\* the caller calls Option<int32_t>::createOption("-s,--long", &var)
callCreateOptionCombined ==
  /\ pc = "idle"
  /\ \E p \in Pads, q \in Pads, sd \in {<<>>, <<"-">>},
        ld \in {<<>>, <<"-">>, <<"-", "-">>},
        s \in ShortHalves, l \in LongHalves :
       probe' = Probe("createOption", CombinedSpec(p, q, sd, s, ld, l), FALSE,
                      [kind |-> "combined", short |-> s, long |-> l,
                       sdash |-> sd, ldash |-> ld],
                      createOption(options, CombinedSpec(p, q, sd, s, ld, l),
                                   "int32", "var"))
  /\ pc' = "done"
  /\ UNCHANGED <<options, app, callVars>>

\* the caller calls Option<int32_t>::createOption with a single name
callCreateOptionSingle ==
  /\ pc = "idle"
  /\ \E p \in Pads, q \in Pads,
        d \in {<<>>, <<"-">>, <<"-", "-">>, <<"-", "-", "-">>},
        n \in ShortHalves \cup LongHalves :
       probe' = Probe("createOption", SingleSpec(p, q, d, n), FALSE,
                      [kind |-> "single", dashes |-> d, name |-> n, inner |-> q],
                      createOption(options, SingleSpec(p, q, d, n),
                                   "int32", "var"))
  /\ pc' = "done"
  /\ UNCHANGED <<options, app, callVars>>

\* the caller calls Command::createCommand(name)
callCreateCommand ==
  /\ pc = "idle"
  /\ \E name \in NameInputs :
       probe' = Probe("createCommand", name, FALSE, NoParts,
                      createCommand(options, name))
  /\ pc' = "done"
  /\ UNCHANGED <<options, app, callVars>>

\* the caller calls Application::addCommand(name, &flag)
callAddCommand ==
  /\ pc = "idle"
  /\ Len(app.commands_) < MaxCommands
  /\ \E name \in {<<"s", "e", "r", "v", "e">>, <<"a", "b">>,
                   <<"7", "b", "c", "d">>, <<"-", "a">>, <<>>} :
       /\ probe' = Probe("addCommand", name, FALSE, [kind |-> "app", app |-> app],
                         createCommand(options, name))
       /\ app' = addCommand(options, app, name, "flag")
  /\ pc' = "done"
  /\ UNCHANGED <<options, callVars>>

\* the caller has the result (or has caught the BuildException) and goes on
callReturn ==
  /\ pc = "done"
  /\ probe.op # "none"
  /\ probe' = NoProbe
  /\ pc' = "idle"
  /\ UNCHANGED <<options, app, callVars>>

NextBuild ==
  \/ setConfig
  \/ callValidateName
  \/ callValidateSize
  \/ callCreateOptionCombined
  \/ callCreateOptionSingle
  \/ callCreateCommand
  \/ callAddCommand
  \/ callReturn

SpecBuild == InitBuild /\ [][NextBuild]_vars

(* ------------------ claims about validators and factories -------------- *)
Letters == LowerCase \cup UpperCase
\* the separator characters the policy cfg enables
EnabledSeparators(cfg) ==
  (IF cfg.nameContainsDashes THEN {"-"} ELSE {}) \cup
  (IF cfg.nameContainsUnderscores THEN {"_"} ELSE {}) \cup
  (IF cfg.nameContainsDots THEN {"."} ELSE {})
\* name is non-empty, starts with a letter and is made of letters, digits and
\* enabled separators
NameAllowed(cfg, name) ==
  /\ Len(name) > 0
  /\ name[1] \in Letters
  /\ \A i \in 1..Len(name) :
       name[i] \in Letters \cup DigitChars \cup EnabledSeparators(cfg)
\* the length n is outside the bounds of the class
SizeRejected(cfg, n, isShort) ==
  \/ isShort /\ (n = 0 \/ n > cfg.shortNameLimit)
  \/ ~isShort /\ (n = 0 \/ n <= cfg.shortNameLimit \/ n > cfg.longNameLimit)
BuildExceptions == {"emptyName", "invalidName", "invalidSize"}
\* the string s ends with the string t
EndsWith(s, t) == Len(s) >= Len(t) /\ SubSeq(s, Len(s) - Len(t) + 1, Len(s)) = t

\* C12: createOption on a combined spec whose halves are valid (short half of
\* 1..shortLimit characters, long half of shortLimit+1..longLimit characters,
\* both letter-first and within the charset of the policy), each half with or
\* without its dash prefix and with white space around it, succeeds, and
\* shortName() is "-" + short and longName() is "--" + long; on a single-name
\* spec that succeeds, one accessor returns the prefixed name and the one of
\* the absent half the empty string.
C12_CanonicalNames ==
  probe.op = "createOption" =>
    /\ (/\ probe.parts.kind = "combined"
        /\ probe.parts.sdash \in {<<>>, <<"-">>}
        /\ probe.parts.ldash \in {<<>>, <<"-", "-">>}
        /\ Len(probe.parts.short) \in 1..options.shortNameLimit
        /\ Len(probe.parts.long) \in
             (options.shortNameLimit + 1)..options.longNameLimit
        /\ NameAllowed(options, probe.parts.short)
        /\ NameAllowed(options, probe.parts.long))
         => /\ probe.out.err = "ok"
            /\ shortName(probe.out) = <<"-">> \o probe.parts.short
            /\ longName(probe.out) = <<"-", "-">> \o probe.parts.long
    /\ (probe.parts.kind = "single" /\ probe.out.err = "ok")
         => \/ /\ Len(shortName(probe.out)) >= 2
               /\ starts_with(shortName(probe.out), <<"-">>)
               /\ EndsWith(trim(probe.name), substrFrom(shortName(probe.out), 1))
               /\ longName(probe.out) = <<>>
            \/ /\ Len(longName(probe.out)) >= 3
               /\ starts_with(longName(probe.out), <<"-", "-">>)
               /\ EndsWith(trim(probe.name), substrFrom(longName(probe.out), 2))
               /\ shortName(probe.out) = <<>>

\* reached: a combined spec with white space around both halves and a dot in
\* the long half, under a policy that allows dots, gave an Option
C12_Witness ==
  /\ probe.op = "createOption" /\ probe.parts.kind = "combined"
  /\ probe.out.err = "ok"
  /\ Len(probe.name) >
       Len(probe.parts.sdash \o probe.parts.short \o <<",">> \o
           probe.parts.ldash \o probe.parts.long)
  /\ \E i \in 1..Len(probe.parts.long) : probe.parts.long[i] = "."
  /\ shortName(probe.out) = <<"-">> \o probe.parts.short

\* what createOption gives for a name of the class isShort: the size error
\* of the class, else the name error, else the Option with the one name
SingleOutcome(out, name, isShort) ==
  IF SizeRejected(options, Len(name), isShort) THEN out.err = "invalidSize"
  ELSE IF ~NameAllowed(options, name) THEN out.err = "invalidName"
  ELSE /\ out.err = "ok"
       /\ shortName(out) = IF isShort THEN <<"-">> \o name ELSE <<>>
       /\ longName(out) = IF isShort THEN <<>> ELSE <<"-", "-">> \o name

\* C13 as stated: a single-name spec that starts with "--" is a long name, one
\* that starts with a single "-" is a short name, one without dash is short if
\* at most 3 characters long; the name after the dashes is validated with the
\* size bounds of that class.
C13_Original ==
  (probe.op = "createOption" /\ probe.parts.kind = "single"
   /\ trim(probe.name) # <<>>)
    => LET data == trim(probe.name)
       IN IF starts_with(data, <<"-", "-">>)
          THEN SingleOutcome(probe.out, trim(substrFrom(data, 2)), FALSE)
          ELSE IF data[1] = "-"
          THEN SingleOutcome(probe.out, trim(substrFrom(data, 1)), TRUE)
          ELSE SingleOutcome(probe.out, data, Len(data) <= 3)

\* C13: a single-name spec that starts with "--" and has at least one more
\* character is a long name; otherwise one that starts with "-" and has at
\* least one more character is a short name (so "--" is the short name "-");
\* otherwise (no dash, or the bare "-") the whole spec is the name, short if
\* at most 3 characters long; the name is validated with the size bounds of
\* that class, then its characters.
C13_SingleNameClass ==
  (probe.op = "createOption" /\ probe.parts.kind = "single"
   /\ trim(probe.name) # <<>>)
    => LET data == trim(probe.name)
       IN IF starts_with(data, <<"-", "-">>) /\ Len(data) >= 3
          THEN SingleOutcome(probe.out, trim(substrFrom(data, 2)), FALSE)
          ELSE IF data[1] = "-" /\ Len(data) >= 2
          THEN SingleOutcome(probe.out, trim(substrFrom(data, 1)), TRUE)
          ELSE SingleOutcome(probe.out, data, Len(data) <= 3)

\* reached: createOption("--") under the default policy was rejected for its
\* name "-", not for a size
C13_Witness ==
  /\ probe.op = "createOption" /\ probe.parts.kind = "single"
  /\ trim(probe.name) = <<"-", "-">>
  /\ options = NameValidationConfig
  /\ probe.out.err = "invalidName"

\* C14: NameValidations::validateName(name) returns normally exactly when name
\* is non-empty, starts with a letter and has only letters, digits and the
\* separators among '-', '_', '.' that the current policy enables; otherwise
\* it throws a BuildException. By default '-' and '_' are enabled, '.' is not.
C14_ValidateName ==
  /\ probe.op = "validateName" =>
       /\ probe.out = "ok" <=> NameAllowed(options, probe.name)
       /\ probe.out # "ok" => probe.out \in BuildExceptions
       /\ (probe.name # <<>> /\ probe.name[1] \notin Letters)
            => probe.out # "ok"
  /\ EnabledSeparators(NameValidationConfig) = {"-", "_"}

\* reached: with dots enabled by setConfig a name with a dot was accepted
C14_Witness ==
  /\ probe.op = "validateName" /\ probe.out = "ok"
  /\ options.nameContainsDots
  /\ \E i \in 1..Len(probe.name) : probe.name[i] = "."

\* C15: validateSize(name, isShort) throws exactly when isShort and the length
\* is 0 or above shortLimit, or not isShort and the length is 0, at most
\* shortLimit or above longLimit, with the limits of the current policy
\* (3 and 100 by default); no length is accepted as both short and long, and
\* a long name has at least shortLimit + 1 characters.
C15_ValidateSize ==
  /\ probe.op = "validateSize" =>
       /\ probe.out # "ok"
            <=> SizeRejected(options, Len(probe.name), probe.isShort)
       /\ probe.out # "ok" => probe.out \in BuildExceptions
       /\ probe.out = "ok"
            => validateSize(options, probe.name, ~probe.isShort) # "ok"
       /\ (probe.out = "ok" /\ ~probe.isShort)
            => Len(probe.name) >= options.shortNameLimit + 1
  /\ NameValidationConfig.shortNameLimit = 3
  /\ NameValidationConfig.longNameLimit = 100

\* reached: a long name of exactly shortLimit + 1 characters was accepted
\* under limits installed by setConfig
C15_Witness ==
  /\ probe.op = "validateSize" /\ ~probe.isShort /\ probe.out = "ok"
  /\ options.shortNameLimit # defaultShortLimit
  /\ Len(probe.name) = options.shortNameLimit + 1

\* C16: createCommand(name) and addCommand(name, flag) succeed only if name
\* passes validateName and validateSize as a long name (4 to 100 characters
\* under the default policy); otherwise they throw a BuildException, and
\* addCommand leaves the command list as it was. On success the command has
\* the name and addCommand has appended it with its flag.
C16_CommandName ==
  probe.op \in {"createCommand", "addCommand"} =>
    /\ probe.out.err = "ok"
         <=> /\ NameAllowed(options, probe.name)
             /\ ~SizeRejected(options, Len(probe.name), FALSE)
    /\ probe.out.err # "ok" => probe.out.err \in BuildExceptions
    /\ probe.out.err = "ok" => probe.out.name_ = probe.name
    /\ (probe.out.err = "ok" /\ options = NameValidationConfig)
         => Len(probe.name) \in 4..100
    /\ probe.op = "addCommand" =>
         app.commands_ =
           IF probe.out.err = "ok"
           THEN Append(probe.parts.app.commands_,
                       [first |-> probe.out, second |-> "flag"])
           ELSE probe.parts.app.commands_

\* reached: addCommand with a name too short for a long name threw and the
\* Application has no command
C16_Witness ==
  /\ probe.op = "addCommand"
  /\ probe.out.err = "invalidSize"
  /\ NameAllowed(options, probe.name)
  /\ app.commands_ = <<>>

(* --------------------- direct calls of fromStr<T> ---------------------- *)
\* the longest generated literal
MaxLitLen == 3

IntegerTypes == SignedTypes \cup UnsignedTypes
FloatTypes == {"float", "double"}

\* the strings handed to fromStr of an integer type: every string of at most
\* MaxLitLen characters of LitChars, the literals at and next to the limits
\* of each type, and strings of the conversion tests
LitChars == {"0", "1", "-", "a", ".", " "}
LimitLiterals ==
  {<<"-", "1", "2", "9">>, <<"-", "1", "2", "8">>, <<"1", "2", "7">>, <<"1", "2", "8">>, <<"2", "5", "5">>, <<"2", "5", "6">>,
   <<"-", "3", "2", "7", "6", "9">>, <<"-", "3", "2", "7", "6", "8">>, <<"3", "2", "7", "6", "7">>, <<"3", "2", "7", "6", "8">>, <<"6", "5", "5", "3", "5">>, <<"6", "5", "5", "3", "6">>,
   <<"-", "2", "1", "4", "7", "4", "8", "3", "6", "4", "9">>, <<"-", "2", "1", "4", "7", "4", "8", "3", "6", "4", "8">>, <<"2", "1", "4", "7", "4", "8", "3", "6", "4", "7">>, <<"2", "1", "4", "7", "4", "8", "3", "6", "4", "8">>,
   <<"4", "2", "9", "4", "9", "6", "7", "2", "9", "5">>, <<"4", "2", "9", "4", "9", "6", "7", "2", "9", "6">>,
   <<"-", "9", "2", "2", "3", "3", "7", "2", "0", "3", "6", "8", "5", "4", "7", "7", "5", "8", "0", "9">>, <<"-", "9", "2", "2", "3", "3", "7", "2", "0", "3", "6", "8", "5", "4", "7", "7", "5", "8", "0", "8">>,
   <<"9", "2", "2", "3", "3", "7", "2", "0", "3", "6", "8", "5", "4", "7", "7", "5", "8", "0", "7">>, <<"9", "2", "2", "3", "3", "7", "2", "0", "3", "6", "8", "5", "4", "7", "7", "5", "8", "0", "8">>,
   <<"1", "8", "4", "4", "6", "7", "4", "4", "0", "7", "3", "7", "0", "9", "5", "5", "1", "6", "1", "5">>, <<"1", "8", "4", "4", "6", "7", "4", "4", "0", "7", "3", "7", "0", "9", "5", "5", "1", "6", "1", "6">>,
   <<"-", "1", "8", "4", "4", "6", "7", "4", "4", "0", "7", "3", "7", "0", "9", "5", "5", "1", "6", "1", "5">>, <<"-", "1", "8", "4", "4", "6", "7", "4", "4", "0", "7", "3", "7", "0", "9", "5", "5", "1", "6", "1", "6">>,
   <<"-", "1", "8", "4", "4", "6", "7", "4", "4", "0", "7", "3", "7", "0", "9", "5", "5", "1", "3", "6", "1">>, <<"-", "1", "8", "4", "4", "6", "7", "4", "4", "0", "7", "3", "7", "0", "9", "5", "5", "1", "3", "6", "0">>}
TestLiterals ==
  {<<"1", "2", "a", "b", "c">>, <<"1", "2", ".", "3", "4">>, <<"a", "b", "c">>, <<"x", "y", "z", "1", "2", "3">>, <<"n", "o", "t", "-", "a", "-", "n", "u", "m", "b", "e", "r">>, <<"+", "7">>,
   <<"1", "0", "0", "0">>, <<"-", "1", "0">>, <<" ", "4", "2">>, <<"4", "2", " ">>, <<"0", "0", "7">>, <<"-", "0">>}
IntLiterals == Strings(LitChars, MaxLitLen) \cup LimitLiterals \cup TestLiterals

\* the strings handed to fromStr<float> and fromStr<double>
FloatChars == {"1", "0", "-", ".", "e", "a"}
FloatLiterals ==
  Strings(FloatChars, MaxLitLen) \cup
  {<<"1", "2", ".", "3", "4", "a", "b", "c">>, <<"1", "2", ".", "3", "4">>, <<"a", "b", "c">>, <<"n", "o", "t", "-", "a", "-", "f", "l", "o", "a", "t">>, <<"1", ".", "5", "e", "2">>, <<"1", ".", "5", "e", "-", "2">>,
   <<"1", ".", "5", "e">>, <<"1", ".", "5", "e", "+">>, <<" ", "2", ".", "5", "0">>, <<"+", ".", "5">>, <<"-", "1", ".", "e", "1", "x">>}

InitFromStr ==
  /\ probe = NoProbe
  /\ lastConfig = NoConfig
  /\ options = NameValidationConfig
  /\ app = createApp
  /\ mem = [v \in {"flag"} |-> FALSE]
  /\ pc = "idle"
  /\ caller = "none"
  /\ calls = 0
  /\ argv = <<>>
  /\ args = <<>> /\ idx = 0 /\ optionMap = EmptyMap /\ commandMap = EmptyMap
  /\ parsedOptions = {}
  /\ cmdIdx = 0 /\ startIdx = 0 /\ cmdArgs = <<>> /\ nameMap = EmptyMap
  /\ argsIndex = 0 /\ parsed = {}
  /\ outcome = NoOutcome
  /\ pre = mem
  /\ log = <<>>

\* the caller calls fromStr<T>(str) for an integer type T
callFromStrInteger ==
  /\ pc = "idle"
  /\ \E T \in IntegerTypes, str \in IntLiterals :
       probe' = Probe("fromStr", str, FALSE, [kind |-> "type", type |-> T],
                      fromStr(T, str))
  /\ pc' = "done"
  /\ UNCHANGED <<options, app, callVars>>

\* the caller calls fromStr<float>(str) or fromStr<double>(str)
callFromStrFloat ==
  /\ pc = "idle"
  /\ \E T \in FloatTypes, str \in FloatLiterals :
       probe' = Probe("fromStr", str, FALSE, [kind |-> "type", type |-> T],
                      fromStr(T, str))
  /\ pc' = "done"
  /\ UNCHANGED <<options, app, callVars>>

NextFromStr ==
  \/ callFromStrInteger
  \/ callFromStrFloat
  \/ callReturn

SpecFromStr == InitFromStr /\ [][NextFromStr]_vars

(* ------------------------- claims about fromStr ------------------------ *)
\* s is a decimal literal: an optional '-' and at least one digit
IsDecimalLiteral(s) ==
  /\ s # <<>>
  /\ LET body == IF s[1] = "-" THEN Tail(s) ELSE s
     IN body # <<>> /\ \A i \in 1..Len(body) : body[i] \in DigitChars
\* the number a decimal literal denotes
Denoted(s) ==
  IF s[1] = "-" THEN Wide(TRUE, Digits(Tail(s))) ELSE Wide(FALSE, Digits(s))
InRange(T, x) == ~Less(x, getLimits(T).min) /\ ~Less(getLimits(T).max, x)
FromStrCall == probe.op = "fromStr"
IntegerCall == FromStrCall /\ probe.parts.type \in IntegerTypes

\* C17 as stated: for every integer type T and every decimal literal, fromStr<T>
\* returns the denoted value when it lies in [min(T), max(T)] and raises the
\* value-out-of-range ParseException when it lies above max(T) or below min(T).
C17_Original ==
  (IntegerCall /\ IsDecimalLiteral(probe.name))
    => IF InRange(probe.parts.type, Denoted(probe.name))
       THEN /\ probe.out.err = "ok"
            /\ probe.out.val = static_cast(probe.parts.type, Denoted(probe.name))
       ELSE probe.out.err = "outOfRange"

\* C18 as stated: for every unsigned integer type T, fromStr<T> raises a
\* ParseException for every literal '-' + a non-zero decimal number; no
\* negative literal is converted to a value of T.
C18_Original ==
  (FromStrCall /\ probe.parts.type \in UnsignedTypes
   /\ IsDecimalLiteral(probe.name) /\ Denoted(probe.name).neg)
    => probe.out.err = "outOfRange"

\* s is white space, an optional sign and at least one digit: all of s is the
\* subject sequence of strtoll / strtoull
IsIntegerSubject(s) ==
  \E w \in 0..Len(s) :
    /\ \A i \in 1..w : isspace(s[i])
    /\ LET t == SubSeq(s, w + 1, Len(s))
           body == IF t # <<>> /\ t[1] \in {"-", "+"} THEN Tail(t) ELSE t
       IN body # <<>> /\ \A i \in 1..Len(body) : body[i] \in DigitChars
\* d is digits with an optional '.', with at least one digit
IsMantissa(d) ==
  /\ \E i \in 1..Len(d) : d[i] \in DigitChars
  /\ \A i \in 1..Len(d) : d[i] \in DigitChars \cup {"."}
  /\ Cardinality({i \in 1..Len(d) : d[i] = "."}) <= 1
\* x is empty or 'e', an optional sign and at least one digit
IsExponent(x) ==
  \/ x = <<>>
  \/ /\ x[1] \in {"e", "E"}
     /\ LET y == IF Len(x) > 1 /\ x[2] \in {"-", "+"} THEN SubSeq(x, 3, Len(x))
                 ELSE Tail(x)
        IN y # <<>> /\ \A i \in 1..Len(y) : y[i] \in DigitChars
\* all of s is a decimal subject sequence of strtof / strtod
IsFloatSubject(s) ==
  \E w \in 0..Len(s), e \in 0..Len(s) :
    /\ w <= e
    /\ \A i \in 1..w : isspace(s[i])
    /\ LET t == SubSeq(s, w + 1, e)
       IN IsMantissa(IF t # <<>> /\ t[1] \in {"-", "+"} THEN Tail(t) ELSE t)
    /\ IsExponent(SubSeq(s, e + 1, Len(s)))
\* all of s is a literal of the base representation of T
IsLiteralOf(T, s) ==
  IF T \in FloatTypes THEN IsFloatSubject(s) ELSE IsIntegerSubject(s)
\* the prefixes of s that are literals of T
LiteralPrefixes(T, s) == {n \in 0..Len(s) : IsLiteralOf(T, SubSeq(s, 1, n))}
Max(S) == CHOOSE n \in S : \A k \in S : k <= n

\* C19 as stated: for every numeric type T and every string that is not a
\* complete literal of T's base representation (a valid prefix followed by
\* other characters included), fromStr<T> raises a conversion error.
C19_Original ==
  (FromStrCall /\ ~IsLiteralOf(probe.parts.type, probe.name))
    => probe.out.err # "ok"

\* C19: for every numeric type T, fromStr<T> raises the conversion error
\* (std::invalid_argument) exactly when no prefix of the string is a literal
\* of T's base representation; when some prefix is, the characters after the
\* longest such prefix are ignored: the result, value or range error, is the
\* one of that prefix alone, so "12abc" and "12.34" give 12 for an integer type.
C19_PrefixParsed ==
  FromStrCall =>
    /\ probe.out.err = "invalid_argument"
         <=> LiteralPrefixes(probe.parts.type, probe.name) = {}
    /\ LiteralPrefixes(probe.parts.type, probe.name) # {}
         => probe.out =
              fromStr(probe.parts.type,
                      SubSeq(probe.name, 1,
                             Max(LiteralPrefixes(probe.parts.type, probe.name))))

\* reached: fromStr<int32_t>("12abc") returned 12
C19_Witness ==
  /\ FromStrCall /\ probe.parts.type = "int32"
  /\ probe.name = <<"1", "2", "a", "b", "c">>
  /\ probe.out = [err |-> "ok", val |-> 12]

\* C20 as stated: the value-out-of-range error carries the value parsed from
\* the literal with min(T) and max(T); for a signed type and a literal below
\* min(T) the reported value is the parsed negative number.
C20_Original ==
  (IntegerCall /\ IsDecimalLiteral(probe.name)
   /\ probe.out.err = "outOfRange")
    => /\ probe.out.val.val =
            toString(IF probe.parts.type \in SignedTypes
                     THEN stoll(probe.name).val ELSE stoull(probe.name).val)
       /\ probe.out.val.min = toString(getLimits(probe.parts.type).min)
       /\ probe.out.val.max = toString(getLimits(probe.parts.type).max)

(* ------------------- claims about repeated calls ----------------------- *)
\* the caller's variables before the first call
InitialMem == IF \E v \in DOMAIN mem : v = "port" THEN MemA ELSE MemB
\* an earlier call has written the target of opt (every write goes through
\* parseValue of the one option bound to the variable, and no token converts
\* to the initial value)
SatisfiedBefore(opt) == pre[opt.value_] # InitialMem[opt.value_]

\* C21: the record of satisfied options is local to each parse / parseCommand
\* call: a name position that resolves to an option satisfied by an earlier
\* call, but not yet in this call, does not raise the duplicate-argument
\* exception; a bool option is written again, and a value option whose next
\* token converts is overwritten with the new value.
C21_RecordPerCall ==
  [][\A scope \in Scopes :
       (/\ AtName(scope)
        /\ (scope = "parse" => At(args, idx) \notin CommandNames)
        /\ IsAlias(ScopeOptions(scope), Tok(scope))
        /\ SatisfiedBefore(At(ScopeOptions(scope),
                              Resolve(ScopeOptions(scope), Tok(scope))))
        /\ ~Satisfied(scope, Resolve(ScopeOptions(scope), Tok(scope))))
         => LET opt == At(ScopeOptions(scope),
                          Resolve(ScopeOptions(scope), Tok(scope)))
            IN /\ outcome'.kind # "multiArg"
               /\ opt.type = "bool" => Advances(scope, 1) /\ mem'[opt.value_] = TRUE
               /\ (/\ opt.type # "bool" /\ HasNext(scope)
                   /\ fromStr(opt.type, NextTok(scope)).err = "ok")
                    => /\ Advances(scope, 2)
                       /\ mem'[opt.value_] =
                            fromStr(opt.type, NextTok(scope)).val]_vars

\* reached: a second call has returned after overwriting with 300 the int32
\* target an earlier call had set to 7
C21_Witness ==
  /\ Ended /\ outcome.kind = "ok" /\ calls = 2
  /\ \E e \in 1..Len(log) :
       /\ log[e].kind = "value"
       /\ LogOption(e).type = "int32"
       /\ pre[LogOption(e).value_] = 7
       /\ mem[LogOption(e).value_] = 300

(* ------------- parse and parseCommand on the same options -------------- *)
\* most options registered on the Application and on the Command
MaxOptions == 2

\* the registrations the caller chooses from: name, type and variable (the
\* third one has the short alias of the first)
Registrations ==
  {[name |-> <<"-", "n", ",", "-", "-", "n", "u", "m", "b", "e", "r">>, type |-> "int32", var |-> "number"],
   [name |-> <<"-", "v", ",", "-", "-", "v", "e", "r", "b", "o", "s", "e">>, type |-> "bool", var |-> "verbose"],
   [name |-> <<"-", "n", ",", "-", "-", "n", "a", "m", "e">>, type |-> "string", var |-> "name"]}
RegistrationLists == UNION {[1..n -> Registrations] : n \in 0..MaxOptions}

RECURSIVE addOptions(_, _, _, _)
\* app.addOption(name, &var) for the registrations regs[i..], in order
addOptions(cfg, a, regs, i) ==
  IF i > Len(regs) THEN a
  ELSE addOptions(cfg, addOption(cfg, a, regs[i].name, regs[i].type, regs[i].var),
                  regs, i + 1)

RECURSIVE addCommandOptions(_, _, _, _)
\* cmd.addOption(name, &var) on the command addCommand returned, for the
\* registrations regs[i..], in order
addCommandOptions(cfg, a, regs, i) ==
  IF i > Len(regs) THEN a
  ELSE addCommandOptions(cfg,
                         WithCommand(cfg, a, 0, regs[i].name, regs[i].type,
                                     regs[i].var),
                         regs, i + 1)

\* the caller's variables
MemC ==
  [v \in {"number", "verbose", "name"} |->
     CASE v = "number" -> 0
       [] v = "name" -> <<>>
       [] OTHER -> FALSE]

\* an Application with the registrations as global options and no command
InitSame ==
  /\ \E regs \in RegistrationLists :
       /\ probe = [op |-> "registered", regs |-> regs]
       /\ app = addOptions(NameValidationConfig, createApp, regs, 1)
  /\ lastConfig = NoConfig
  /\ options = NameValidationConfig
  /\ mem = MemC
  /\ pc = "idle"
  /\ caller = "none"
  /\ calls = 0
  /\ argv = <<>>
  /\ args = <<>> /\ idx = 0 /\ optionMap = EmptyMap /\ commandMap = EmptyMap
  /\ parsedOptions = {}
  /\ cmdIdx = 0 /\ startIdx = 0 /\ cmdArgs = <<>> /\ nameMap = EmptyMap
  /\ argsIndex = 0 /\ parsed = {}
  /\ outcome = NoOutcome
  /\ pre = mem
  /\ log = <<>>

\* parse has ended: the caller keeps how it ended, puts its variables back,
\* registers the same options on a Command and calls its parseCommand with
\* the same arguments
parseCommandSame ==
  /\ pc = "done"
  /\ probe.op = "registered"
  /\ calls < MaxCalls
  /\ probe' = [op |-> "parse", regs |-> probe.regs, args |-> args,
               outcome |-> outcome, mem |-> mem, log |-> log]
  /\ app' = addCommandOptions(options,
                              addCommand(options, createApp,
                                         <<"s", "a", "m", "e">>, "flag"),
                              probe.regs, 1)
  /\ mem' = pre
  /\ cmdIdx' = 0
  /\ nameMap' = buildNameMap(At(app'.commands_, 0).first.options_, 0, EmptyMap)
  /\ cmdArgs' = args
  /\ startIdx' = -1
  /\ parsed' = {}
  /\ argsIndex' = 0
  /\ pc' = "parseCommand"
  /\ caller' = "direct"
  /\ calls' = calls + 1
  /\ outcome' = NoOutcome
  /\ log' = <<>>
  /\ UNCHANGED <<options, lastConfig, pre, parseLocals>>

NextSame ==
  \/ parse
  \/ parseReturn
  \/ parseUnknown
  \/ processOption
  \/ parseCommandSame
  \/ parseCommandUnknown
  \/ parseCommandOption
  \/ parseCommandReturn

SpecSame == InitSame /\ [][NextSame]_vars

\* what a call did at each name position: where, what, and to which option
Trace(l) == [e \in 1..Len(l) |-> [pos |-> l[e].pos, kind |-> l[e].kind, opt |-> l[e].opt]]

\* C22: for every list of registrations and every argument list, parse on an
\* Application with those global options and no command, and parseCommand on
\* a Command with the same options, end with the same outcome (both return,
\* or both raise the same exception at the same token) and the same values
\* in the caller's variables.
C22_ParseEqualsParseCommand ==
  (pc = "done" /\ probe.op = "parse") =>
    /\ outcome = probe.outcome
    /\ mem = probe.mem
    /\ Trace(log) = Trace(probe.log)
    /\ cmdArgs = probe.args

\* reached: both calls wrote a target and then raised the duplicate-argument
\* exception at the third token
C22_Witness ==
  /\ pc = "done" /\ probe.op = "parse"
  /\ outcome.kind = "multiArg" /\ probe.outcome.kind = "multiArg"
  /\ Len(log) = 2 /\ log[2].pos = 2
  /\ mem # pre
  /\ Len(probe.regs) = 2

(* ---------------------- claims about the policy ------------------------ *)
\* the policy passed to the most recent setConfig call; the one of process
\* start before the first call
LastPolicy ==
  IF lastConfig.op = "none" THEN NameValidationConfig ELSE lastConfig.config

\* C23: name validation uses exactly the policy passed to the most recent
\* setConfig call, every field of it: validateName and validateSize accept
\* and reject by that policy alone; so after any sequence of setConfig calls
\* that ends with setConfig(default policy) they accept and reject exactly
\* what they do at process start.
C23_LastConfigWins ==
  /\ options = LastPolicy
  /\ probe.op = "validateName" =>
       (probe.out = "ok" <=> NameAllowed(LastPolicy, probe.name))
  /\ probe.op = "validateSize" =>
       (probe.out # "ok"
          <=> SizeRejected(LastPolicy, Len(probe.name), probe.isShort))
  /\ (lastConfig.op = "setConfig" /\ lastConfig.config = NameValidationConfig)
       => /\ probe.op = "validateName" =>
               probe.out = NVvalidateName(NameValidationConfig, probe.name)
          /\ probe.op = "validateSize" =>
               probe.out = validateSize(NameValidationConfig, probe.name,
                                        probe.isShort)

\* reached: setConfig(default policy) has replaced another policy and
\* validateName rejects a name with a dot, as at process start
C23_Witness ==
  /\ lastConfig.op = "setConfig"
  /\ lastConfig.config = NameValidationConfig
  /\ lastConfig.replaced
  /\ probe.op = "validateName"
  /\ probe.name = <<"a", ".", "a">>
  /\ probe.out = "invalidName"

(* ------------------- claims about the value token ---------------------- *)
\* the log entries e and f are of the same scope
SameScope(e, f) == log[e].scope = log[f].scope

\* C24: in parse and in parseCommand the token after a matched value-needing
\* option is consumed as that option's value and is never looked up in the
\* option or command name maps, even when it is a registered alias or command
\* name: the step writes at most the target of the matched option, enters no
\* command, marks only the matched option and goes on two tokens further (or
\* ends the call when the token does not convert); no name position is ever
\* processed at the position of a value token.
C24_ValueTokenNotLookedUp ==
  /\ [][\A scope \in Scopes :
          (/\ AtName(scope)
           /\ (scope = "parse" => At(args, idx) \notin CommandNames)
           /\ HasNext(scope)
           /\ IsAlias(ScopeOptions(scope), Tok(scope))
           /\ At(ScopeOptions(scope),
                 Resolve(ScopeOptions(scope), Tok(scope))).type # "bool"
           /\ ~Satisfied(scope, Resolve(ScopeOptions(scope), Tok(scope))))
            => LET k == Resolve(ScopeOptions(scope), Tok(scope))
                   opt == At(ScopeOptions(scope), k)
               IN /\ \A v \in DOMAIN mem : v # opt.value_ => mem'[v] = mem[v]
                  /\ pc' \in {pc, "done"}
                  /\ pc' = pc => Advances(scope, 2)
                  /\ pc' = "done" => outcome'.kind \notin {"ok", "unknownArg", "multiArg", "insufficientValues"}
                  /\ parsedOptions' \subseteq parsedOptions \cup {k}
                  /\ parsed' \subseteq parsed \cup {k}]_vars
  /\ [](\A e \in 1..Len(log) :
          log[e].kind \in {"value", "convfail"} =>
            \A f \in 1..Len(log) :
              SameScope(e, f) => log[f].pos # log[e].pos + 1)

\* reached: parse has returned after storing a command name as the value of a
\* string option; no command has run
C24_Witness ==
  /\ Ended /\ outcome.kind = "ok" /\ caller = "none"
  /\ \E e \in 1..Len(log) :
       /\ log[e].kind = "value"
       /\ At(args, log[e].pos + 1) \in CommandNames
       /\ mem[LogOption(e).value_] = At(args, log[e].pos + 1)
  /\ \A f \in Flags : mem[f] = FALSE

(* ------------------ claims about the order of checks ------------------- *)
\* the value the first occurrence of the option of log entry e has written
Written(e) ==
  IF LogOption(e).type = "bool" THEN TRUE
  ELSE fromStr(LogOption(e).type, At(CallArgs, log[e].pos + 1)).val

ConversionErrors == {"invalid_argument", "out_of_range", "outOfRange"}

\* C26: when the converter raises for a value token, parseValue propagates the
\* error without writing the bound target: the call ends with the converter's
\* exception, every variable of the caller is as before the step, and the
\* option is not marked satisfied.
C26_FailedConversionWritesNothing ==
  [][\A scope \in Scopes :
       (/\ AtName(scope)
        /\ (scope = "parse" => At(args, idx) \notin CommandNames)
        /\ HasNext(scope)
        /\ IsAlias(ScopeOptions(scope), Tok(scope))
        /\ ~Satisfied(scope, Resolve(ScopeOptions(scope), Tok(scope)))
        /\ LET opt == At(ScopeOptions(scope),
                         Resolve(ScopeOptions(scope), Tok(scope)))
           IN opt.type # "bool" /\ fromStr(opt.type, NextTok(scope)).err # "ok")
         => LET k == Resolve(ScopeOptions(scope), Tok(scope))
                opt == At(ScopeOptions(scope), k)
            IN /\ pc' = "done"
               /\ outcome'.kind = fromStr(opt.type, NextTok(scope)).err
               /\ outcome'.kind \in ConversionErrors
               /\ mem' = mem
               /\ parsedOptions' = parsedOptions /\ parsed' = parsed
               /\ IF scope = "parse" THEN k \notin parsedOptions'
                  ELSE k \notin parsed']_vars

\* reached: a call has ended with the out-of-range error of the converter for
\* an option whose target an earlier call had set to 7, and the target is 7
C26_Witness ==
  /\ Ended /\ outcome.kind = "outOfRange"
  /\ log[Len(log)].kind = "convfail"
  /\ pre[LogOption(Len(log)).value_] = 7
  /\ mem[LogOption(Len(log)).value_] = 7

(* ------------------ claims about names registered twice ---------------- *)
\* the token a log entry was made for
LogTok(e) ==
  IF log[e].scope = "parse" THEN At(args, log[e].pos)
  ELSE At(cmdArgs, log[e].pos - startIdx - 1)
\* the options of the scope a log entry belongs to
LogOptions(e) == ScopeOptions(log[e].scope)
\* the last command registered with the name n
LastNamed(n) ==
  CHOOSE c \in Indices(app.commands_) :
    /\ At(app.commands_, c).first.name_ = n
    /\ \A d \in Indices(app.commands_) :
         At(app.commands_, d).first.name_ = n => d <= c
\* option k of opts has an alias that an option registered later has too
Shadowed(opts, k) ==
  \E j \in Indices(opts) :
    j > k /\ Aliases(At(opts, j)) \cap Aliases(At(opts, k)) # {}
\* the caller registered "-n,--number" and then "-n,--name", and two commands
\* named "test"
RegisteredTwice == \E v \in DOMAIN mem : v = "name"

\* C27: registering two options with a common alias, or two commands with the
\* same name, is not rejected (both are registered); in every later call the
\* name maps resolve a shared name to the entry registered last, so a step on
\* a shared alias leaves the target of the earlier option alone and is not a
\* duplicate even when the earlier option is satisfied, every write to an
\* option was made through an alias no later option has, and the flag of a
\* command whose name a later command has is never written.
C27_LastRegistrationWins ==
  /\ [](RegisteredTwice =>
          /\ Len(app.options_) = 2
          /\ Aliases(At(app.options_, 0)) \cap Aliases(At(app.options_, 1)) # {}
          /\ Len(app.commands_) = 2
          /\ At(app.commands_, 0).first.name_ = At(app.commands_, 1).first.name_)
  /\ [](pc = "parse" =>
          /\ \A n \in DOMAIN optionMap : optionMap[n] = Resolve(app.options_, n)
          /\ \A n \in DOMAIN commandMap : commandMap[n] = LastNamed(n))
  /\ [](pc = "parseCommand" =>
          \A n \in DOMAIN nameMap :
            nameMap[n] = Resolve(ScopeOptions("parseCommand"), n))
  /\ [][\A scope \in Scopes :
          \A k \in Indices(ScopeOptions(scope)) :
            (/\ AtName(scope)
             /\ Tok(scope) \in Aliases(At(ScopeOptions(scope), k))
             /\ Resolve(ScopeOptions(scope), Tok(scope)) > k
             /\ ~Satisfied(scope, Resolve(ScopeOptions(scope), Tok(scope))))
              => /\ mem'[At(ScopeOptions(scope), k).value_]
                      = mem[At(ScopeOptions(scope), k).value_]
                 /\ ~(pc' = "done" /\ outcome'.kind = "multiArg")]_vars
  /\ [](\A e \in 1..Len(log) :
          Wrote(e) =>
            /\ LogTok(e) \in Aliases(LogOption(e))
            /\ \A j \in Indices(LogOptions(e)) :
                 j > log[e].opt => LogTok(e) \notin Aliases(At(LogOptions(e), j)))
  /\ [][\A c \in Indices(app.commands_) :
          LastNamed(At(app.commands_, c).first.name_) # c
            => mem'[At(app.commands_, c).second] = mem[At(app.commands_, c).second]]_vars

\* reached: an earlier call gave the shared alias and set the option registered
\* last only; this call set the earlier option through its own alias and then
\* met the shared alias, which was not a duplicate
C27_Witness ==
  /\ RegisteredTwice /\ calls = 2 /\ Ended
  /\ pre["name"] = <<"7">> /\ pre["number"] = 0
  /\ mem["number"] = 7
  /\ \E e, f \in 1..Len(log) :
       /\ e < f /\ SameScope(e, f)
       /\ Wrote(e) /\ Shadowed(LogOptions(e), log[e].opt)
       /\ log[f].opt > log[e].opt
       /\ LogTok(f) \in Aliases(LogOption(e))
       /\ log[f].kind # "duplicate"

(* ------------------- the maps of a built Application ------------------- *)
\* the names a caller registers global options with: short, long, combined
\* and unprefixed names, a name a command has too, and names createOption
\* rejects
OptionSpecs ==
  {<<"-", "a">>, <<"a">>, <<"-", "-", "a", "b">>, <<"-", "a", ",", "-", "-", "a", "b">>, <<"s", "e", "r", "v", "e">>, <<"7">>, <<>>}

\* the caller calls Application::addOption(name, &flag)
callAddOption ==
  /\ pc = "idle"
  /\ Len(app.options_) < MaxOptions
  /\ \E name \in OptionSpecs :
       /\ probe' = Probe("addOption", name, FALSE, [kind |-> "app", app |-> app],
                         createOption(options, name, "bool", "flag"))
       /\ app' = addOption(options, app, name, "bool", "flag")
  /\ pc' = "done"
  /\ UNCHANGED <<options, callVars>>

NextApp ==
  \/ setConfig
  \/ callAddOption
  \/ callAddCommand
  \/ callReturn

SpecApp == InitBuild /\ [][NextApp]_vars

\* the branch the loop body of parse takes for the token tok: the command map
\* is tested first
Dispatch(maps, tok) ==
  IF tok \in DOMAIN maps.commandMap
  THEN [kind |-> "command", idx |-> maps.commandMap[tok]]
  ELSE IF tok \in DOMAIN maps.optionMap
  THEN [kind |-> "option", idx |-> maps.optionMap[tok]]
  ELSE [kind |-> "unknownArg", idx |-> 0]
\* the same with the option map tested first
DispatchOptionFirst(maps, tok) ==
  IF tok \in DOMAIN maps.optionMap
  THEN [kind |-> "option", idx |-> maps.optionMap[tok]]
  ELSE IF tok \in DOMAIN maps.commandMap
  THEN [kind |-> "command", idx |-> maps.commandMap[tok]]
  ELSE [kind |-> "unknownArg", idx |-> 0]
\* the tokens a caller can pass to an Application built from these names
RegisteredTokens(maps) ==
  DOMAIN maps.optionMap \cup DOMAIN maps.commandMap \cup OptionSpecs

\* C28: for every Application built by a sequence of addOption and addCommand
\* calls (under whatever policy was installed at each call), every key of the
\* option name map starts with '-' and every registered command name starts
\* with a letter, so no token is in both maps and parse takes the same branch
\* for every token whichever map it tests first.
C28_MapsDisjoint ==
  /\ \A n \in DOMAIN buildReconMaps(app).optionMap :
       Len(n) > 0 /\ n[1] = "-"
  /\ \A c \in Indices(app.commands_) :
       /\ Len(At(app.commands_, c).first.name_) > 0
       /\ At(app.commands_, c).first.name_[1] \in Letters
  /\ \A n \in DOMAIN buildReconMaps(app).commandMap : n[1] \in Letters
  /\ DOMAIN buildReconMaps(app).optionMap
       \cap DOMAIN buildReconMaps(app).commandMap = {}
  /\ \A tok \in RegisteredTokens(buildReconMaps(app)) :
       Dispatch(buildReconMaps(app), tok)
         = DispatchOptionFirst(buildReconMaps(app), tok)

\* reached: an option was registered under the name "serve" and a command
\* under the name "serve": both are in the Application
C28_Witness ==
  /\ pc = "idle"
  /\ <<"s", "e", "r", "v", "e">> \in DOMAIN buildReconMaps(app).commandMap
  /\ <<"-", "-", "s", "e", "r", "v", "e">> \in DOMAIN buildReconMaps(app).optionMap
  /\ Len(app.options_) = 2

(* --------------------- claims about bool targets ----------------------- *)
\* the variables bool options are bound to
BoolTargets == {opt.value_ : opt \in {o \in AllOptions : o.type = "bool"}}

\* C29: parse and parseCommand never write false to the target of a bool
\* option: no step changes a bool target to anything but true, and after any
\* call each bool target is its value before the call or true.
C29_BoolTargetsOnlyRise ==
  /\ [][\A v \in BoolTargets : mem'[v] = mem[v] \/ mem'[v] = TRUE]_vars
  /\ [](Ended => \A v \in BoolTargets : mem[v] = pre[v] \/ mem[v] = TRUE)

\* reached: a call that was given a bool option whose target was already true
\* has returned, and the target is true
C29_Witness ==
  /\ Ended /\ outcome.kind = "ok"
  /\ \E e \in 1..Len(log) :
       /\ log[e].kind = "flag"
       /\ LogOption(e).type = "bool"
       /\ pre[LogOption(e).value_] = TRUE
       /\ mem[LogOption(e).value_] = TRUE

(* -------------------- claims about executed flags ---------------------- *)
\* C30: parse never writes false to an executed flag: no step of a call makes
\* a flag anything but what it was or true, and a flag that was true before a
\* call is true after it, whether the call ran another command, ran none or
\* raised.
C30_FlagsStayTrue ==
  /\ [][\A f \in Flags : mem'[f] = mem[f] \/ mem'[f] = TRUE]_vars
  /\ [](\A f \in Flags : pre[f] = TRUE => mem[f] = TRUE)

\* reached: the second parse call on the Application has run a command other
\* than the one the first call ran, and the flags of both are true
C30_Witness ==
  /\ calls = 2 /\ Ended /\ outcome.kind = "ok" /\ caller = "parse"
  /\ \E c \in Indices(app.commands_) :
       /\ c # cmdIdx
       /\ pre[At(app.commands_, c).second] = TRUE
       /\ pre[At(app.commands_, cmdIdx).second] = FALSE
       /\ mem[At(app.commands_, c).second] = TRUE
       /\ mem[At(app.commands_, cmdIdx).second] = TRUE
====
